---- MODULE Spec2Model ----
(***************************************************************************)
(* SafeScan backend: the ingredient-text-to-risk-verdict pipeline.         *)
(*                                                                         *)
(* Strings are sequences of one-character strings, so that lower-casing,   *)
(* trimming, splitting and the regular expressions of the tokenizers are   *)
(* computed character by character as the JavaScript computes them.        *)
(***************************************************************************)
EXTENDS Integers, Sequences, FiniteSets, TLC

VARIABLES
    pc,         \* position of the operation under way
    text,       \* the input: req.body.text, or the argument of a tokenizer
    tokens,     \* the token list of the operation under way
    table,      \* dataset_rows, in the order the store returns its rows
    refDb,      \* ingredientDb, the reference table in insertion order
    aiEnv,      \* AI_SERVICE_URL is set or not, and what the AI service answers
    analysis,   \* the handler's analysis, or the result of the function applied
    source,     \* the handler's source
    trace,      \* what the request has done so far: outcomes and call counts
    response,   \* what the caller received
    store,      \* the committed rows of scans, ingredients and scan_ingredients
    requests    \* the requests that save a scan: position, transaction, response

vars == <<pc, text, tokens, table, refDb, aiEnv, analysis, source, trace, response,
          store, requests>>

(***************************************************************************)
(* Characters and elementary string operations                             *)
(***************************************************************************)
UpperChars == <<"A","B","C","D","E","F","G","H","I","J","K","L","M",
                "N","O","P","Q","R","S","T","U","V","W","X","Y","Z">>
LowerChars == <<"a","b","c","d","e","f","g","h","i","j","k","l","m",
                "n","o","p","q","r","s","t","u","v","w","x","y","z">>

\* \s of a JavaScript regular expression, and the characters trim() removes
WhiteSpace == {" ", "\t", "\n", "\r"}
Digits == {"0","1","2","3","4","5","6","7","8","9"}
\* \w of a JavaScript regular expression
WordChars == {UpperChars[i] : i \in 1..26} \cup {LowerChars[i] : i \in 1..26}
                \cup Digits \cup {"_"}

Lower(c) ==
    IF \E i \in 1..26 : UpperChars[i] = c
    THEN LowerChars[CHOOSE i \in 1..26 : UpperChars[i] = c]
    ELSE c

\* String.prototype.toLowerCase
ToLowerCase(s) == [i \in 1..Len(s) |-> Lower(s[i])]

\* number of leading characters of s, after the first n, that belong to set
RECURSIVE SkipWhile(_, _, _)
SkipWhile(s, n, set) ==
    IF n < Len(s) /\ s[n + 1] \in set THEN SkipWhile(s, n + 1, set) ELSE n

\* length of s once its trailing characters in set are removed
RECURSIVE KeepUntil(_, _, _)
KeepUntil(s, n, set) ==
    IF n > 0 /\ s[n] \in set THEN KeepUntil(s, n - 1, set) ELSE n

\* s.replace(/^[set]+/, '')
StripLeading(s, set) == SubSeq(s, SkipWhile(s, 0, set) + 1, Len(s))

\* s.replace(/[set]+$/, '')
StripTrailing(s, set) == SubSeq(s, 1, KeepUntil(s, Len(s), set))

\* String.prototype.trim
Trim(s) == StripTrailing(StripLeading(s, WhiteSpace), WhiteSpace)

\* s.replace(/[set]+/g, c): every maximal run of characters of set becomes c
RECURSIVE ReplaceRunsFrom(_, _, _, _)
ReplaceRunsFrom(s, set, c, i) ==
    IF i > Len(s) THEN <<>>
    ELSE IF s[i] \in set
         THEN IF i > 1 /\ s[i - 1] \in set
              THEN ReplaceRunsFrom(s, set, c, i + 1)
              ELSE <<c>> \o ReplaceRunsFrom(s, set, c, i + 1)
         ELSE <<s[i]>> \o ReplaceRunsFrom(s, set, c, i + 1)

ReplaceRuns(s, set, c) == ReplaceRunsFrom(s, set, c, 1)

\* s.replace(/[set]/g, c): every character of set becomes c
ReplaceEach(s, set, c) == [i \in 1..Len(s) |-> IF s[i] \in set THEN c ELSE s[i]]

\* s.split(/[seps]+/g): a leading or trailing separator yields an empty part
RECURSIVE SplitFrom(_, _, _, _)
SplitFrom(s, seps, i, cur) ==
    IF i > Len(s) THEN <<cur>>
    ELSE IF s[i] \in seps
         THEN IF i > 1 /\ s[i - 1] \in seps
              THEN SplitFrom(s, seps, i + 1, cur)
              ELSE <<cur>> \o SplitFrom(s, seps, i + 1, <<>>)
         ELSE SplitFrom(s, seps, i + 1, Append(cur, s[i]))

SplitRuns(s, seps) == SplitFrom(s, seps, 1, <<>>)

\* s.split(','): every single separator cuts (string_to_array(x, ','))
RECURSIVE SplitEachFrom(_, _, _, _)
SplitEachFrom(s, sep, i, cur) ==
    IF i > Len(s) THEN <<cur>>
    ELSE IF s[i] = sep
         THEN <<cur>> \o SplitEachFrom(s, sep, i + 1, <<>>)
         ELSE SplitEachFrom(s, sep, i + 1, Append(cur, s[i]))

\* case-insensitive test that w (lower case) occurs in s right after the first n characters
MatchesAtCI(s, n, w) ==
    /\ n + Len(w) <= Len(s)
    /\ \A i \in 1..Len(w) : Lower(s[n + i]) = w[i]

\* String.prototype.includes
Includes(s, sub) ==
    \E n \in 0..(Len(s) - Len(sub)) : \A i \in 1..Len(sub) : s[n + i] = sub[i]

\* the elements of a sequence
Range(seq) == {seq[i] : i \in 1..Len(seq)}

(***************************************************************************)
(* JavaScript values handed to the tokenizers: a string or something else  *)
(***************************************************************************)
Str(s) == [t |-> "string", s |-> s]
NotAString == {[t |-> "null", s |-> <<>>], [t |-> "undefined", s |-> <<>>],
               [t |-> "number", s |-> <<>>], [t |-> "object", s |-> <<>>]}
\* !text || typeof text !== 'string'
IsFalsyOrNotString(v) == v.t # "string" \/ v.s = <<>>

(***************************************************************************)
(* Tokenizer 1: parseIngredientTokens (utils/extractIngredientsSection.js) *)
(***************************************************************************)
\* the non-ASCII characters of the source, each one character here
EnDash == "u2013"
EAcute == "u00e9"
Bullet == "u2022"
MiddleDot == "u00b7"
WordIngredient == <<"i","n","g","r","e","d","i","e","n","t">>
WordIngredients == WordIngredient \o <<"s">>
WordIngredientsFr == <<"i","n","g","r",EAcute,"d","i","e","n","t","s">>
PrefixSeparators == {":", "-", EnDash}
EdgePunctuation == {".", "(", ")", ":", ";"}
PartEdgePunctuation == EdgePunctuation \cup {"\"", "'"}
MinTokenLen == 2

\* number of characters matched by \s*[:\-\u2013]?\s* after the first n characters
LabelTailEnd(s, n) ==
    LET a == SkipWhile(s, n, WhiteSpace)
        b == IF a < Len(s) /\ s[a + 1] \in PrefixSeparators THEN a + 1 ELSE a
    IN  SkipWhile(s, b, WhiteSpace)

\* text.replace(/^(ingredients|ingredient)s?\s*[:\-\u2013]?\s*/i, '')
StripIngredientsLabel(s) ==
    IF ~MatchesAtCI(s, 0, WordIngredient) THEN s
    ELSE LET a == IF MatchesAtCI(s, 0, WordIngredients) THEN 11 ELSE 10
             b == IF a < Len(s) /\ Lower(s[a + 1]) = "s" THEN a + 1 ELSE a
         IN  SubSeq(s, LabelTailEnd(s, b) + 1, Len(s))

\* the body of the for loop over the parts, up to the length test
NormalizePart(part) ==
    ToLowerCase(Trim(StripTrailing(StripLeading(Trim(part), PartEdgePunctuation),
                                   PartEdgePunctuation)))

\* used by the mutant of Deduplicate: a duplicate moves the token to its last position
RECURSIVE KeepLast(_, _)
KeepLast(parts, out) ==
    IF parts = <<>> THEN out
    ELSE LET p == Head(parts)
         IN  KeepLast(Tail(parts), Append(SelectSeq(out, LAMBDA t : t # p), p))

\* const seen = new Set(); for (...) { if (seen.has(t)) continue; seen.add(t); out.push(t) }
RECURSIVE KeepFirst(_, _)
KeepFirst(parts, out) ==
    IF parts = <<>> THEN out
    ELSE LET p == Head(parts)
         IN  KeepFirst(Tail(parts), IF p \in Range(out) THEN out ELSE Append(out, p))

\* the normalized parts that pass the length test, duplicates included
ParseParts(s) ==
    LET c1 == StripIngredientsLabel(s)
        c2 == ReplaceRuns(c1, {"\r", "\n"}, " ")
        c3 == StripLeading(StripTrailing(c2, EdgePunctuation), EdgePunctuation)
        c4 == Trim(ReplaceRuns(c3, WhiteSpace, " "))
        parts == SplitRuns(c4, {",", ";"})
        norm == [i \in 1..Len(parts) |-> NormalizePart(parts[i])]
    IN  SelectSeq(norm, LAMBDA t : ~(Len(t) < MinTokenLen))

\* the mutant of Deduplicate below: the last occurrence of a token is the one kept
DeduplicateKeepLast(parts) == KeepLast(parts, <<>>)

Deduplicate(parts) == KeepFirst(parts, <<>>)

parseIngredientTokens(v) ==
    IF IsFalsyOrNotString(v) THEN <<>> ELSE Deduplicate(ParseParts(v.s))

(***************************************************************************)
(* Tokenizer 2: normalizeIngredients (utils/ingredientNormalizer.js)       *)
(***************************************************************************)
Bullets == {Bullet, MiddleDot}

\* s.replace(/^\s*(ingredients|ingredient|ingr\u00e9dients)\s*[:\-\u2013]?\s*/i, '')
StripCommonPrefix(s) ==
    LET a == SkipWhile(s, 0, WhiteSpace)
        b == IF MatchesAtCI(s, a, WordIngredients) THEN a + 11
             ELSE IF MatchesAtCI(s, a, WordIngredient) THEN a + 10
             ELSE IF MatchesAtCI(s, a, WordIngredientsFr) THEN a + 11
             ELSE 0
    IN  IF b = 0 THEN s ELSE SubSeq(s, LabelTailEnd(s, b) + 1, Len(s))

\* t.replace(/^\((.*)\)$/, '$1')
StripSurroundingParens(t) ==
    IF Len(t) >= 2 /\ t[1] = "(" /\ t[Len(t)] = ")" /\ "\n" \notin Range(t)
    THEN SubSeq(t, 2, Len(t) - 1)
    ELSE t

cleanToken(token) ==
    LET t1 == Trim(ReplaceEach(ReplaceRuns(token, WhiteSpace, " "), Bullets, " "))
        t2 == Trim(StripTrailing(t1, {".", ";", ":"}))
        t3 == Trim(StripSurroundingParens(t2))
        t4 == Trim(StripCommonPrefix(t3))
    IN  ToLowerCase(t4)

\* the cleaned parts that pass the two filters, duplicates included
NormalizeParts(s) ==
    LET cleaned == Trim(StripCommonPrefix(ReplaceEach(ReplaceEach(s, {"\r"}, "\n"),
                                                      {"\t"}, " ")))
        parts == SplitRuns(cleaned, {",", ";", "|", "\n"})
        toks == [i \in 1..Len(parts) |-> cleanToken(parts[i])]
    IN  SelectSeq(toks, LAMBDA t : Len(t) > 1)

\* the mutant of normalizeIngredients below: a value that is no string is coerced with
\* String(text) instead of being answered with []
normalizeIngredientsCoerced(v) ==
    Deduplicate(NormalizeParts(IF v.t = "string" THEN v.s ELSE <<"n","u","l","l">>))

normalizeIngredients(v) ==
    IF IsFalsyOrNotString(v) THEN <<>> ELSE Deduplicate(NormalizeParts(v.s))

(***************************************************************************)
(* Dataset lookup: analyzeWithDataset (services/datasetAnalysis.service.js)*)
(* A dataset row is [ingredient_name, risk_level, reason, aliases]; the    *)
(* aliases column is a JavaScript/SQL value (a string or NULL), the reason *)
(* is a plain label ("" when it is NULL or empty).                         *)
(***************************************************************************)
SqlNull == [t |-> "null", s |-> <<>>]

\* string_to_array(x, ','): NULL for NULL, no element for the empty string
StringToArray(v) ==
    IF v.t # "string" \/ v.s = <<>> THEN <<>> ELSE SplitEachFrom(v.s, ",", 1, <<>>)

\* WHERE LOWER(ingredient_name) = LOWER($1)
ExactRows(tbl, token) ==
    SelectSeq(tbl, LAMBDA r : ToLowerCase(r.ingredient_name) = ToLowerCase(token))

\* the mutant of AliasRows below: the earlier substring strategy (aliases ILIKE '%token%')
AliasRowsBySubstring(tbl, token) ==
    SelectSeq(tbl, LAMBDA r : r.aliases.t = "string"
                              /\ Includes(ToLowerCase(r.aliases.s), ToLowerCase(token)))

\* WHERE $1 = ANY(string_to_array(LOWER(aliases), ',')), with $1 = token.toLowerCase()
AliasRows(tbl, token) ==
    SelectSeq(tbl, LAMBDA r :
        ToLowerCase(token) \in Range(StringToArray([r.aliases EXCEPT !.s = ToLowerCase(@)])))

\* the rows of the query whose result the loop uses for one token
QueryRows(tbl, token) ==
    IF ExactRows(tbl, token) # <<>> THEN ExactRows(tbl, token) ELSE AliasRows(tbl, token)

\* the mutant of PushMatch below: the duplicate test is left out
PushMatchAlways(matches, token, row) ==
    Append(matches, [input |-> token, name |-> row.ingredient_name,
                     risk_level |-> row.risk_level, reason |-> row.reason])

\* if (!matchedNames.has(name.toLowerCase())) { matchedNames.add(...); matches.push(...) }
PushMatch(matches, token, row) ==
    IF \E i \in 1..Len(matches) :
           ToLowerCase(matches[i].name) = ToLowerCase(row.ingredient_name)
    THEN matches
    ELSE Append(matches, [input |-> token, name |-> row.ingredient_name,
                          risk_level |-> row.risk_level, reason |-> row.reason])

\* the mutant of MatchToken below: a token without a row is reported as a LOW entry
MatchTokenKeepUnmatched(tbl, matches, token) ==
    IF Trim(token) = <<>> THEN matches
    ELSE IF QueryRows(tbl, token) # <<>>
         THEN PushMatch(matches, token, QueryRows(tbl, token)[1])
         ELSE Append(matches, [input |-> token, name |-> token,
                               risk_level |-> "LOW", reason |-> ""])

\* one iteration of the loop over the tokens
MatchToken(tbl, matches, token) ==
    IF Trim(token) = <<>> THEN matches
    ELSE IF QueryRows(tbl, token) # <<>>
         THEN PushMatch(matches, token, QueryRows(tbl, token)[1])
         ELSE matches

RECURSIVE MatchTokens(_, _, _)
MatchTokens(tbl, toks, matches) ==
    IF toks = <<>> THEN matches
    ELSE MatchTokens(tbl, Tail(toks), MatchToken(tbl, matches, Head(toks)))

CountLevel(matches, level) == Len(SelectSeq(matches, LAMBDA m : m.risk_level = level))

determineOverallRiskLevel(matches) ==
    IF matches = <<>> THEN "LOW"
    ELSE IF \E i \in 1..Len(matches) : matches[i].risk_level = "HIGH" THEN "HIGH"
    ELSE IF \E i \in 1..Len(matches) : matches[i].risk_level = "MEDIUM" THEN "MEDIUM"
    ELSE "LOW"

\* [...new Set(matches.map(m => m.reason).filter(Boolean))]
UniqueReasons(matches) ==
    KeepFirst(SelectSeq([i \in 1..Len(matches) |-> matches[i].reason],
                        LAMBDA r : r # ""), <<>>)

NoMatchesResult(explanations) ==
    [matched_ingredients |-> <<>>, explanations |-> explanations, risk_level |-> "LOW",
     summary |-> [safeCount |-> 0, riskyCount |-> 0, restrictedCount |-> 0]]

\* the value analyzeWithDataset resolves to when no query fails
analyzeWithDataset(toks, tbl) ==
    IF toks = <<>> THEN NoMatchesResult(<<>>)
    ELSE LET matches == MatchTokens(tbl, toks, <<>>)
         IN  IF matches = <<>> THEN NoMatchesResult(<<"No dataset matches found">>)
             ELSE [matched_ingredients |-> matches,
                   explanations |-> UniqueReasons(matches),
                   risk_level |-> determineOverallRiskLevel(matches),
                   summary |-> [safeCount |-> CountLevel(matches, "LOW"),
                                riskyCount |-> CountLevel(matches, "MEDIUM"),
                                restrictedCount |-> CountLevel(matches, "HIGH")]]

\* analyzeWithDataset touches the store (and so can throw) only for a non-empty token list
DatasetLookupCanThrow(toks) == toks # <<>>

\* the value analyzeTextWithDataset resolves to when no query fails
analyzeTextWithDataset(v, tbl) ==
    LET r == analyzeWithDataset(parseIngredientTokens(v), tbl)
    IN  IF r.matched_ingredients = <<>>
        THEN [r EXCEPT !.explanations = <<"No dataset matches found">>]
        ELSE r

(***************************************************************************)
(* Rule tier: classifyIngredient (utils/riskClassifier.js) and analyzeText *)
(* (services/ingredientAnalysis.service.js).  The reference table is a     *)
(* sequence of [key, status, explanation] in insertion order.              *)
(***************************************************************************)
W_water == <<"w","a","t","e","r">>
W_aqua == <<"a","q","u","a">>
W_perfume == <<"p","e","r","f","u","m","e">>
W_fragrance == <<"f","r","a","g","r","a","n","c","e">>
W_parfum == <<"p","a","r","f","u","m">>
W_paraben == <<"p","a","r","a","b","e","n">>
W_sls == <<"s","o","d","i","u","m"," ","l","a","u","r","y","l"," ","s","u","l">>
W_sles == <<"s","o","d","i","u","m"," ","l","a","u","r","e","t","h"," ","s","u","l">>
MinContainsKeyLen == 4

\* SYNONYMS[ingredient], or the ingredient itself when it has no synonym
ApplySynonym(s) ==
    IF s = W_aqua THEN W_water
    ELSE IF s = W_perfume THEN W_fragrance
    ELSE IF s = W_sls \o <<"p","h","a","t","e">> THEN W_sls \o <<"f","a","t","e">>
    ELSE IF s = W_sles \o <<"p","h","a","t","e">> THEN W_sles \o <<"f","a","t","e">>
    ELSE s

normalizeForMatch(s) ==
    Trim(SelectSeq(ReplaceRuns(ToLowerCase(s), WhiteSpace, " "),
                   LAMBDA c : c \notin {"(", ")", "[", "]", "{", "}"}))

\* ingredientDb is a plain object parsed from JSON: ingredientDb[k] also finds what
\* the object inherits from Object.prototype.  Of those names only these two are
\* left unchanged by toLowerCase; what they give has no status and no explanation.
W_constructor == <<"c","o","n","s","t","r","u","c","t","o","r">>
W_proto == <<"_","_","p","r","o","t","o","_","_">>
InheritedKeys == {W_constructor, W_proto}
InheritedHit(k) == [status |-> "undefined", explanation |-> "undefined", matchedKey |-> Str(k)]

HasKey(db, k) == \E i \in 1..Len(db) : db[i].key = k
Entry(db, k) == db[CHOOSE i \in 1..Len(db) : db[i].key = k]
Hit(e, k) == [status |-> e.status, explanation |-> e.explanation, matchedKey |-> Str(k)]

\* a containment test without the length condition
ContainedKeysOfAnyLength(db, normalized) ==
    SelectSeq(db, LAMBDA e : Includes(normalized, e.key))

\* for (const key of Object.keys(ingredientDb)) if (key.length >= 4 && normalized.includes(key))
ContainedKeys(db, normalized) ==
    SelectSeq(db, LAMBDA e : Len(e.key) >= MinContainsKeyLen /\ Includes(normalized, e.key))

classifyIngredient(db, rawIngredient) ==
    LET ingredient == normalizeForMatch(rawIngredient)
        normalized == IF ApplySynonym(ingredient) # ingredient
                      THEN normalizeForMatch(ApplySynonym(ingredient)) ELSE ingredient
    IN  IF ingredient = <<>>
        THEN [status |-> "Unknown", explanation |-> "No ingredient provided.",
              matchedKey |-> SqlNull]
        ELSE IF HasKey(db, normalized) THEN Hit(Entry(db, normalized), normalized)
        ELSE IF normalized \in InheritedKeys THEN InheritedHit(normalized)
        ELSE IF ContainedKeys(db, normalized) # <<>>
             THEN Hit(ContainedKeys(db, normalized)[1], ContainedKeys(db, normalized)[1].key)
        \* /(paraben)s?$/.test(normalized) || normalized.includes('paraben')
        ELSE IF Includes(normalized, W_paraben)
             THEN IF HasKey(db, W_paraben) THEN Hit(Entry(db, W_paraben), W_paraben)
                  ELSE [status |-> "Risky",
                        explanation |-> "Preservative; may concern some users.",
                        matchedKey |-> Str(W_paraben)]
        ELSE IF Includes(normalized, W_fragrance) \/ Includes(normalized, W_parfum)
             THEN IF HasKey(db, W_fragrance) THEN Hit(Entry(db, W_fragrance), W_fragrance)
                  ELSE [status |-> "Risky",
                        explanation |->
                            "May trigger irritation or allergies in sensitive users.",
                        matchedKey |-> Str(W_fragrance)]
        ELSE [status |-> "Unknown",
              explanation |-> "Not found in the current SafeScan reference list.",
              matchedKey |-> SqlNull]

PhoneRunLen == 10
PhoneRedacted == <<"[","P","H","O","N","E"," ","R","E","D","A","C","T","E","D","]">>

\* input.replace(/\b\d{10,}\b/g, '[PHONE REDACTED]'): a maximal run of at least ten
\* digits that has no word character on either side
RECURSIVE RedactPhonesFrom(_, _)
RedactPhonesFrom(s, i) ==
    IF i > Len(s) THEN <<>>
    ELSE LET e == SkipWhile(s, i - 1, Digits)    \* the digit run from i ends at e
         IN  IF /\ s[i] \in Digits
                /\ (i = 1 \/ s[i - 1] \notin WordChars)
                /\ e - i + 1 >= PhoneRunLen
                /\ (e = Len(s) \/ s[e + 1] \notin WordChars)
             THEN PhoneRedacted \o RedactPhonesFrom(s, e + 1)
             ELSE <<s[i]>> \o RedactPhonesFrom(s, i + 1)

\* buildAiPayload(text).text for a text without '@' and without '-' between digits
\* (the e-mail and SSN patterns of buildAiPayload need those characters)
buildAiPayload(s) == RedactPhonesFrom(s, 1)

StatusBucket(status) ==
    IF status = "Safe" THEN "safe"
    ELSE IF status = "Risky" THEN "risky"
    ELSE IF status = "Restricted" THEN "restricted"
    ELSE "unknown"

CountBucket(results, b) == Len(SelectSeq(results, LAMBDA r : StatusBucket(r.status) = b))

\* the mutant of RuleSummary below: results of status Unknown are not counted
RuleSummaryWithoutUnknown(results) ==
    [total |-> Len(results),
     safe |-> CountBucket(results, "safe"),
     risky |-> CountBucket(results, "risky"),
     restricted |-> CountBucket(results, "restricted"),
     unknown |-> 0]

\* results.reduce((acc, r) => { acc.total += 1; ... })
RuleSummary(results) ==
    [total |-> Len(results),
     safe |-> CountBucket(results, "safe"),
     risky |-> CountBucket(results, "risky"),
     restricted |-> CountBucket(results, "restricted"),
     unknown |-> CountBucket(results, "unknown")]

\* ingredients.map((ingredient) => ({ ingredient, ...classifyIngredient(ingredient) }))
RuleResults(db, ingredients) ==
    [i \in 1..Len(ingredients) |->
        [ingredient |-> ingredients[i]] @@ classifyIngredient(db, ingredients[i])]

\* analyzeText of ingredientAnalysis.service.js, for a string
analyzeRuleBased(db, v) ==
    LET ingredients == normalizeIngredients(Str(buildAiPayload(v.s)))
        results == RuleResults(db, ingredients)
    IN  [ingredients |-> ingredients, results |-> results, summary |-> RuleSummary(results)]

(***************************************************************************)
(* AI tier: normalizeAIResponse, mapRiskLevel, mapMatchedIngredients and   *)
(* calculateOverallRisk (services/aiModel.service.js).  A value of the     *)
(* response is a JavaScript value: Str(characters) or Undefined.           *)
(***************************************************************************)
Undefined == [t |-> "undefined", s |-> <<>>]
Truthy(v) == v.t = "string" /\ v.s # <<>>
\* String(v): the characters of a string, "undefined" for undefined
StringOf(v) ==
    IF v.t = "string" THEN v.s ELSE <<"u","n","d","e","f","i","n","e","d">>

W_low == <<"l","o","w">>
W_safe == <<"s","a","f","e">>
W_high == <<"h","i","g","h">>
W_danger == <<"d","a","n","g","e","r">>
W_restricted == <<"r","e","s","t","r","i","c","t","e","d">>
W_unsafe == <<"u","n","s","a","f","e">>
W_medium == <<"m","e","d","i","u","m">>
W_moderate == <<"m","o","d","e","r","a","t","e">>
W_risky == <<"r","i","s","k","y">>
W_caution == <<"c","a","u","t","i","o","n">>
W_risk == <<"r","i","s","k">>

LowWords == {W_low, W_safe, W_safe \o <<"/">> \o W_low, W_low \o <<" ">> \o W_risk,
             <<"n","o"," ">> \o W_risk}
HighWords == {W_high, W_danger, W_danger \o <<"o","u","s">>, W_high \o <<" ">> \o W_risk,
              W_restricted, W_unsafe}
OverallHighWords == {W_high, W_danger, W_danger \o <<"o","u","s">>, W_restricted}
OverallMediumWords == {W_medium, W_moderate, W_risky, W_caution}

\* the mutant of mapRiskLevel below: a word of neither list is answered with LOW
mapRiskLevelDefaultLow(risk) ==
    IF ~Truthy(risk) THEN "LOW"
    ELSE IF Trim(ToLowerCase(StringOf(risk))) \in HighWords THEN "HIGH"
    ELSE "LOW"

mapRiskLevel(risk) ==
    IF ~Truthy(risk) THEN "MEDIUM"
    ELSE IF Trim(ToLowerCase(StringOf(risk))) \in LowWords THEN "LOW"
    ELSE IF Trim(ToLowerCase(StringOf(risk))) \in HighWords THEN "HIGH"
    ELSE "MEDIUM"

calculateOverallRisk(riskLevels) ==
    IF riskLevels = <<>> THEN "MEDIUM"
    ELSE IF \E i \in 1..Len(riskLevels) :
                Trim(ToLowerCase(StringOf(riskLevels[i]))) \in OverallHighWords
         THEN "HIGH"
    ELSE IF \E i \in 1..Len(riskLevels) :
                Trim(ToLowerCase(StringOf(riskLevels[i]))) \in OverallMediumWords
         THEN "MEDIUM"
    ELSE "LOW"

\* name: ing.name || ... || 'Unknown'
mapMatchedIngredients(items) ==
    [i \in 1..Len(items) |->
        [name |-> IF Truthy(items[i].name) THEN items[i].name
                  ELSE Str(<<"U","n","k","n","o","w","n">>),
         risk |-> mapRiskLevel(items[i].risk),
         reason |-> items[i].reason]]

\* results.map / predictions.map: the name stays undefined when the item has none
MapResultItems(items) ==
    [i \in 1..Len(items) |->
        [name |-> IF Truthy(items[i].name) THEN items[i].name ELSE Undefined,
         risk |-> mapRiskLevel(items[i].risk),
         reason |-> items[i].reason]]

\* An AI response body is [risk_level, list, items]: list names the array the body
\* carries ("matched_ingredients", "results", "predictions" or "none"); an item is
\* [name, risk, reason].
normalizeAIResponse(aiResponse) ==
    IF Truthy(aiResponse.risk_level)
    THEN [risk_level |-> mapRiskLevel(aiResponse.risk_level),
          matched_ingredients |->
              mapMatchedIngredients(IF aiResponse.list = "matched_ingredients"
                                    THEN aiResponse.items ELSE <<>>)]
    ELSE IF aiResponse.list \in {"results", "predictions"}
    THEN [risk_level |->
              calculateOverallRisk([i \in 1..Len(aiResponse.items) |->
                                       aiResponse.items[i].risk]),
          matched_ingredients |-> MapResultItems(aiResponse.items)]
    ELSE [risk_level |-> "MEDIUM", matched_ingredients |-> <<>>]

(***************************************************************************)
(* Risk vocabularies: normalizeStatus (services/aiExplain.service.js),     *)
(* mapRiskLevelToScanRisk (services/datasetAnalysis.service.js) and        *)
(* mapStatusToRiskLevel (the import script of QUICK_START.md)              *)
(***************************************************************************)
W_banned == <<"b","a","n","n","e","d">>
W_concern == <<"c","o","n","c","e","r","n">>
RestrictedWords == {W_restricted, W_banned, W_high \o <<" ">> \o W_risk, W_danger}
RiskyWords == {W_risky, W_moderate, W_medium \o <<" ">> \o W_risk, W_caution, W_concern}

normalizeStatus(status) ==
    IF ~Truthy(status) THEN "Safe"
    ELSE IF Trim(ToLowerCase(StringOf(status))) \in RestrictedWords THEN "Restricted"
    ELSE IF Trim(ToLowerCase(StringOf(status))) \in RiskyWords THEN "Risky"
    ELSE "Safe"

mapRiskLevelToScanRisk(riskLevel) ==
    IF riskLevel = "LOW" THEN "safe"
    ELSE IF riskLevel = "MEDIUM" THEN "risky"
    ELSE IF riskLevel = "HIGH" THEN "restricted"
    ELSE "unknown"

\* switch ((status || '').toLowerCase()): StatusBucket is the lower-cased status
mapStatusToRiskLevel(status) ==
    IF StatusBucket(status) = "safe" THEN "LOW"
    ELSE IF StatusBucket(status) = "risky" THEN "MEDIUM"
    ELSE IF StatusBucket(status) = "restricted" THEN "HIGH"
    ELSE "LOW"

(***************************************************************************)
(* Orchestrator helpers (controllers/scan.controller.js)                   *)
(***************************************************************************)
\* ing.name.toLowerCase() throws a TypeError when the name is undefined
ConvertThrows(aiResult) ==
    \E i \in 1..Len(aiResult.matched_ingredients) :
        aiResult.matched_ingredients[i].name.t # "string"

AiStatus(risk) == IF risk = "HIGH" THEN "Risky" ELSE IF risk = "LOW" THEN "Safe" ELSE "Unknown"

\* the value convertAIRuleToFormat returns when it does not throw
convertAIRuleToFormat(aiResult) ==
    LET results == [i \in 1..Len(aiResult.matched_ingredients) |->
                       [ingredient |-> aiResult.matched_ingredients[i].name.s,
                        status |-> AiStatus(aiResult.matched_ingredients[i].risk),
                        explanation |-> aiResult.matched_ingredients[i].reason,
                        matchedKey |->
                            Str(ToLowerCase(aiResult.matched_ingredients[i].name.s))]]
    IN  [ingredients |-> [i \in 1..Len(results) |-> results[i].ingredient],
         results |-> results,
         summary |-> RuleSummary(results),
         risk_level |-> aiResult.risk_level,
         matched_ingredients |-> aiResult.matched_ingredients]

(***************************************************************************)
(* Inputs                                                                  *)
(***************************************************************************)
MaxRows == 2
MaxTokens == 3
MaxAiItems == 2

\* all sequences of at most n elements of S, and those without a repeated element
RECURSIVE SeqsUpTo(_, _)
SeqsUpTo(S, n) ==
    IF n = 0 THEN {<<>>}
    ELSE SeqsUpTo(S, n - 1) \cup
         {Append(q, x) : q \in {r \in SeqsUpTo(S, n - 1) : Len(r) = n - 1}, x \in S}
DistinctSeqsUpTo(S, n) ==
    {q \in SeqsUpTo(S, n) : \A i, j \in 1..Len(q) : i # j => q[i] # q[j]}

\* dataset rows: names that differ in case only, a shared alias, an alias written
\* with a space after the comma, names and aliases that contain a token or lie in one
RowAb == [ingredient_name |-> <<"A","b">>, risk_level |-> "HIGH", reason |-> "r1",
          aliases |-> Str(<<"c","d",",","E","F">>)]
Rowab == [ingredient_name |-> <<"a","b">>, risk_level |-> "LOW", reason |-> "r2",
          aliases |-> Str(<<"g","h">>)]
Rowxy == [ingredient_name |-> <<"x","y">>, risk_level |-> "MEDIUM", reason |-> "r1",
          aliases |-> Str(<<"c","d",","," ","i","j">>)]
Rowabcd == [ingredient_name |-> <<"a","b","c","d">>, risk_level |-> "HIGH", reason |-> "",
            aliases |-> SqlNull]
Rowq == [ingredient_name |-> <<"q">>, risk_level |-> "LOW", reason |-> "r5",
         aliases |-> Str(<<"e",",","i","j","x",",">>)]
DatasetRows == {RowAb, Rowab, Rowxy, Rowabcd, Rowq}
\* ingredient_name TEXT UNIQUE NOT NULL: the names of a table are distinct
Tables == {t \in DistinctSeqsUpTo(DatasetRows, MaxRows) :
              \A i, j \in 1..Len(t) : i # j => t[i].ingredient_name # t[j].ingredient_name}

\* tokens as a tokenizer returns them: lower case, trimmed, two characters at least
TokenUniverse == {<<"a","b">>, <<"c","d">>, <<"e","f">>, <<"g","h">>, <<"i","j">>,
                  <<"x","y">>}
TokenLists == DistinctSeqsUpTo(TokenUniverse, MaxTokens)

\* reference tables
RefEntry(k, st) == [key |-> k, status |-> st, explanation |-> "ref"]
RefDbs == {<<>>,
           <<RefEntry(<<"a","b">>, "Safe"), RefEntry(W_paraben, "Restricted"),
             RefEntry(<<"x","p","a","r">>, "Risky")>>}

\* request texts of the analyze endpoint
T_ab_cd == <<"a","b",",","c","d">>
T_Ab_ef_ab == <<"A","b",","," ","e","f",";","a","b">>
T_label == <<"I","n","g","r","e","d","i","e","n","t","s",":"," ","x","y",",",
             " ","g","h",".">>
T_short == <<"a">>
T_pipe == <<"x","p","a","r","a","b","e","n","|","a","b">>
T_phone == <<"0","1","2","3","4","5","6","7","8","9",",","i","j">>
RequestTexts == {Str(T_ab_cd), Str(T_Ab_ef_ab), Str(T_label), Str(T_short), Str(T_pipe),
                 Str(T_phone), Str(<<>>), Undefined}
RequestTables == {<<>>, <<RowAb>>, <<Rowab, RowAb>>, <<Rowxy, RowAb>>}

\* what the AI service answers to POST /predict
AiItem(n, r) == [name |-> n, risk |-> r, reason |-> "ai"]
AiName == Str(<<"x">>)
AiItems == {AiItem(AiName, Str(W_low)), AiItem(AiName, Str(W_unsafe)),
            AiItem(AiName, Str(<<"H","i","g","h"," ">>)), AiItem(AiName, Undefined),
            AiItem(Undefined, Str(W_risky))}
AiResponses ==
    {[risk_level |-> l, list |-> k, items |-> q] :
        l \in {Undefined, Str(W_low)}, k \in {"matched_ingredients", "results"},
        q \in SeqsUpTo(AiItems, MaxAiItems)}
    \cup {[risk_level |-> l, list |-> "none", items |-> <<>>] : l \in {Undefined, Str(W_low)}}
\* the request fails (network error, timeout, error status) or a body arrives
NoBody == [risk_level |-> Undefined, list |-> "none", items |-> <<>>]
AiServiceBehaviours == {[ok |-> FALSE, data |-> NoBody]} \cup
                       {[ok |-> TRUE, data |-> r] : r \in AiResponses}

(***************************************************************************)
(* The analyze request: exports.analyzeText (controllers/scan.controller.js)*)
(***************************************************************************)
NoAnalysis == [none |-> TRUE]
\* no scan saved yet, and no request that saves one
EmptyStore == [scans |-> {}, ingredients |-> {}, links |-> {}, nextScanId |-> 1]
NoRequests == <<>>
NoResponse == [status |-> 0]
NoTrace == [available |-> "unchecked", lookup |-> "none", ai |-> "none",
            lookupCalls |-> 0, aiCalls |-> 0, ruleCalls |-> 0]

Init ==
    /\ pc = "start"
    /\ text \in RequestTexts
    /\ tokens = <<>>
    /\ table \in RequestTables
    /\ refDb \in RefDbs
    /\ aiEnv \in [url : BOOLEAN, service : AiServiceBehaviours]
    /\ analysis = NoAnalysis
    /\ source = "rules"
    /\ trace = NoTrace
    /\ response = NoResponse
    /\ store = EmptyStore
    /\ requests = NoRequests

\* const client = await db.pool.connect(), before the try block: when the pool
\* cannot give a client the handler's promise rejects and the handler answers nothing
AcquireClient ==
    /\ pc = "start"
    /\ \/ pc' = "validate"
       \/ pc' = "rejected"
    /\ UNCHANGED <<text, tokens, table, refDb, aiEnv, analysis, source, trace, response, store, requests>>

\* if (!text || typeof text !== 'string') return res.status(400)
ValidateText ==
    /\ pc = "validate"
    /\ IF IsFalsyOrNotString(text)
       THEN pc' = "done" /\ response' = [status |-> 400]
       ELSE pc' = "checkDataset" /\ response' = response
    /\ UNCHANGED <<text, tokens, table, refDb, aiEnv, analysis, source, trace, store, requests>>

\* isDatasetAvailable(): count > 0, or false when the count query fails
CheckDataset ==
    /\ pc = "checkDataset"
    /\ \E queryOk \in BOOLEAN :
         LET available == queryOk /\ Len(table) > 0
         IN  /\ trace' = [trace EXCEPT !.available = IF available THEN "yes" ELSE "no"]
             /\ pc' = IF available THEN "lookup" ELSE "fallback"
    /\ UNCHANGED <<text, tokens, table, refDb, aiEnv, analysis, source, response, store, requests>>

\* a mutant of DatasetLookup below: the catch of the dataset error goes to the rules
\* without trying the AI tier
DatasetLookupThrowToRules ==
    /\ pc = "lookup"
    /\ tokens' = parseIngredientTokens(text)
    /\ \/ /\ analysis' = analyzeTextWithDataset(text, table)
          /\ source' = "dataset"
          /\ trace' = [trace EXCEPT !.lookup = "ok", !.lookupCalls = @ + 1]
          /\ pc' = "respond"
       \/ /\ DatasetLookupCanThrow(tokens')
          /\ trace' = [trace EXCEPT !.lookup = "threw", !.lookupCalls = @ + 1]
          /\ pc' = "rules"
          /\ UNCHANGED <<analysis, source, store, requests>>
    /\ UNCHANGED <<text, table, refDb, aiEnv, response, store, requests>>

\* a mutant of DatasetLookup below: the dataset result does not end the chain
DatasetLookupFallsThrough ==
    /\ pc = "lookup"
    /\ tokens' = parseIngredientTokens(text)
    /\ \/ /\ analysis' = analyzeTextWithDataset(text, table)
          /\ source' = "dataset"
          /\ trace' = [trace EXCEPT !.lookup = "ok", !.lookupCalls = @ + 1]
          /\ pc' = "fallback"
       \/ /\ DatasetLookupCanThrow(tokens')
          /\ trace' = [trace EXCEPT !.lookup = "threw", !.lookupCalls = @ + 1]
          /\ pc' = "fallback"
          /\ UNCHANGED <<analysis, source, store, requests>>
    /\ UNCHANGED <<text, table, refDb, aiEnv, response, store, requests>>

\* analysis = await analyzeTextWithDataset(text); source = 'dataset', or the catch:
\* the lookup throws when its pool.connect() or one of its queries fails
DatasetLookup ==
    /\ pc = "lookup"
    /\ tokens' = parseIngredientTokens(text)
    /\ \/ /\ analysis' = analyzeTextWithDataset(text, table)
          /\ source' = "dataset"
          /\ trace' = [trace EXCEPT !.lookup = "ok", !.lookupCalls = @ + 1]
          /\ pc' = "respond"
       \/ /\ DatasetLookupCanThrow(tokens')
          /\ trace' = [trace EXCEPT !.lookup = "threw", !.lookupCalls = @ + 1]
          /\ pc' = "fallback"
          /\ UNCHANGED <<analysis, source, store, requests>>
    /\ UNCHANGED <<text, table, refDb, aiEnv, response, store, requests>>

\* analyzeWithAI resolves: the request succeeded and normalizeAIResponse returned
AiCallReturns(service) == service.ok
\* the AI tier succeeds: its result is also converted to the unified shape
AiTierSucceeds(service) ==
    AiCallReturns(service) /\ ~ConvertThrows(normalizeAIResponse(service.data))

\* a mutant of CallAI below: the AI tier is tried whether or not an endpoint is set
CallAIWithoutUrlCheck ==
    /\ pc = "fallback"
    /\ IF AiTierSucceeds(aiEnv.service)
       THEN /\ analysis' = convertAIRuleToFormat(normalizeAIResponse(aiEnv.service.data))
            /\ source' = "ai"
            /\ trace' = [trace EXCEPT !.ai = "ok", !.aiCalls = @ + 1]
            /\ pc' = "respond"
       ELSE /\ trace' = [trace EXCEPT !.ai = "failed", !.aiCalls = @ + 1]
            /\ pc' = "rules"
            /\ UNCHANGED <<analysis, source, store, requests>>
    /\ UNCHANGED <<text, tokens, table, refDb, aiEnv, response, store, requests>>

\* if (process.env.AI_SERVICE_URL) { try { aiResult = await analyzeWithAI(text);
\*   analysis = convertAIRuleToFormat(aiResult); source = 'ai' } catch { rules } }
CallAI ==
    /\ pc = "fallback"
    /\ aiEnv.url
    /\ IF AiTierSucceeds(aiEnv.service)
       THEN /\ analysis' = convertAIRuleToFormat(normalizeAIResponse(aiEnv.service.data))
            /\ source' = "ai"
            /\ trace' = [trace EXCEPT !.ai = "ok", !.aiCalls = @ + 1]
            /\ pc' = "respond"
       ELSE /\ trace' = [trace EXCEPT !.ai = "failed", !.aiCalls = @ + 1]
            /\ pc' = "rules"
            /\ UNCHANGED <<analysis, source, store, requests>>
    /\ UNCHANGED <<text, tokens, table, refDb, aiEnv, response, store, requests>>

\* analysis = analyzeRuleBased(text); source = 'rules': the else branch when no AI
\* endpoint is configured, and the catch of the AI attempt
RuleBased ==
    /\ \/ pc = "fallback" /\ ~aiEnv.url
       \/ pc = "rules"
    /\ analysis' = analyzeRuleBased(refDb, text)
    /\ source' = "rules"
    /\ trace' = [trace EXCEPT !.ruleCalls = @ + 1]
    /\ pc' = "respond"
    /\ UNCHANGED <<text, tokens, table, refDb, aiEnv, response, store, requests>>

\* the response of each source, and res.json(response)
BuildResponse(src, a) ==
    IF src \in {"dataset", "ai"}
    THEN [status |-> 200, source |-> src, risk_level |-> a.risk_level,
          matched_ingredients |-> a.matched_ingredients]
    ELSE [status |-> 200, source |-> "rules", ingredients |-> a.ingredients,
          results |-> a.results, summary |-> a.summary]

\* the scan is saved for an authenticated user inside its own try/catch (a failed save
\* is rolled back and logged, the request goes on), then res.json(response)
Respond ==
    /\ pc = "respond"
    /\ response' = BuildResponse(source, analysis)
    /\ pc' = "done"
    /\ UNCHANGED <<text, tokens, table, refDb, aiEnv, analysis, source, trace, store, requests>>

Next ==
    \/ AcquireClient
    \/ ValidateText
    \/ CheckDataset
    \/ DatasetLookup
    \/ CallAI
    \/ RuleBased
    \/ Respond

Spec == Init /\ [][Next]_vars

(***************************************************************************)
(* Claims about the analyze request (checked under Spec)                   *)
(***************************************************************************)
Answered == pc = "done" /\ response.status = 200
Sources == {"dataset", "ai", "rules"}

C2_DatasetWins ==
    (trace.available = "yes" /\ trace.lookup = "ok")
        => /\ source = "dataset"
           /\ trace.aiCalls = 0 /\ trace.ruleCalls = 0
           /\ pc \in {"respond", "done"}
           /\ pc = "done" =>
                 /\ response.status = 200
                 /\ response.source = "dataset"
                 /\ response.matched_ingredients =
                        analyzeWithDataset(tokens, table).matched_ingredients
                 /\ response.risk_level = analyzeWithDataset(tokens, table).risk_level

C2_Witness ==
    /\ Answered
    /\ trace.available = "yes" /\ trace.lookup = "ok"
    /\ response.matched_ingredients # <<>>

\* C3: the AI classifier is called only after the dataset tier was found unavailable
\* or threw, and only if an AI endpoint is configured; without an endpoint the request
\* goes to the rule tier without any AI call; the AI classifier is called at most once.
C3_AiOnlyAfterDataset ==
    /\ trace.aiCalls <= 1
    /\ trace.aiCalls = 1 =>
          /\ aiEnv.url
          /\ trace.available = "no" \/ trace.lookup = "threw"
          /\ trace.lookup # "ok"
    /\ (Answered /\ ~aiEnv.url /\ trace.lookup # "ok") =>
          /\ trace.aiCalls = 0
          /\ trace.ruleCalls = 1
          /\ response.source = "rules"

C3_Witness ==
    /\ Answered
    /\ trace.aiCalls = 1
    /\ trace.lookup = "threw"

\* C4: every request whose text is a non-empty string ends, under every combination
\* of dataset-store failures and AI failures, with a success response whose source is
\* dataset, ai or rules.
C4_AlwaysAnswered ==
    (pc \in {"done", "rejected"} /\ ~IsFalsyOrNotString(text))
        => /\ response.status = 200
           /\ response.source \in Sources

Dominant(levels) ==
    IF "HIGH" \in Range(levels) THEN "HIGH"
    ELSE IF "MEDIUM" \in Range(levels) THEN "MEDIUM"
    ELSE "LOW"

\* the levels of the per-ingredient results of a dataset or AI response
ResponseLevels(r) ==
    [i \in 1..Len(r.matched_ingredients) |->
        IF r.source = "dataset" THEN r.matched_ingredients[i].risk_level
        ELSE r.matched_ingredients[i].risk]

\* C5: the overall risk level of a verdict is HIGH whenever a per-ingredient result is
\* HIGH, otherwise MEDIUM whenever one is MEDIUM, otherwise LOW (stated for the
\* verdicts that carry an overall level: those of the dataset and of the AI tier).
C5_SeverityDominance ==
    (Answered /\ response.source \in {"dataset", "ai"}
              /\ response.matched_ingredients # <<>>)
        => response.risk_level = Dominant(ResponseLevels(response))

(***************************************************************************)
(* The functions of a text: both tokenizers and the rule-based analysis.   *)
(* A text is a list of parts joined by separators.                         *)
(***************************************************************************)
MaxParts == 3

TextParts == {<<"a","b">>,
              <<" ","A","b",".">>,
              <<"c">>,
              <<"I","n","g","r","e","d","i","e","n","t","s",":"," ","c","d">>,
              <<"(","p","a","r","a","b","e","n",")">>,
              <<"(","a","b",".",")">>,
              <<>>}
TextSeparators == {",", "|", "\n"}

\* parts[1] sepA parts[2] sepB parts[3] sepA ...
RECURSIVE JoinAlternating(_, _, _)
JoinAlternating(parts, sepA, sepB) ==
    IF Len(parts) = 0 THEN <<>>
    ELSE IF Len(parts) = 1 THEN parts[1]
    ELSE parts[1] \o <<sepA>> \o JoinAlternating(Tail(parts), sepB, sepA)

Texts ==
    {Str(JoinAlternating(q, a, b)) :
        q \in SeqsUpTo(TextParts, MaxParts), a \in TextSeparators, b \in TextSeparators}
    \cup NotAString

InitText ==
    /\ pc = "text"
    /\ text \in Texts
    /\ tokens = <<>>
    /\ table = <<>>
    /\ refDb \in RefDbs
    /\ aiEnv = [url |-> FALSE, service |-> [ok |-> FALSE, data |-> NoBody]]
    /\ analysis = NoAnalysis
    /\ source = "rules"
    /\ trace = NoTrace
    /\ response = NoResponse
    /\ store = EmptyStore
    /\ requests = NoRequests

\* tokens = parseIngredientTokens(text)
ParseText ==
    /\ pc = "text"
    /\ tokens' = parseIngredientTokens(text)
    /\ pc' = "parsed"
    /\ UNCHANGED <<text, table, refDb, aiEnv, analysis, source, trace, response, store, requests>>

\* tokens = normalizeIngredients(text)
NormalizeText ==
    /\ pc = "text"
    /\ tokens' = normalizeIngredients(text)
    /\ pc' = "normalized"
    /\ UNCHANGED <<text, table, refDb, aiEnv, analysis, source, trace, response, store, requests>>

\* analysis = analyzeText(text) of the rule tier, for a string (input.replace(...)
\* needs one)
AnalyzeRules ==
    /\ pc = "text"
    /\ text.t = "string"
    /\ analysis' = analyzeRuleBased(refDb, text)
    /\ tokens' = analysis'.ingredients
    /\ pc' = "analyzed"
    /\ UNCHANGED <<text, table, refDb, aiEnv, source, trace, response, store, requests>>

\* tokens.join(','): the text a caller gets by rejoining a token list with commas
RECURSIVE JoinWithCommas(_)
JoinWithCommas(toks) ==
    IF toks = <<>> THEN <<>>
    ELSE IF Len(toks) = 1 THEN toks[1]
    ELSE toks[1] \o <<",">> \o JoinWithCommas(Tail(toks))

\* parseIngredientTokens(tokens.join(',')), tokens being what parseIngredientTokens returned
ReparseTokens ==
    /\ pc = "parsed"
    /\ analysis' = [again |-> parseIngredientTokens(Str(JoinWithCommas(tokens)))]
    /\ pc' = "reparsed"
    /\ UNCHANGED <<text, tokens, table, refDb, aiEnv, source, trace, response, store, requests>>

\* normalizeIngredients(tokens.join(',')), tokens being what normalizeIngredients returned
RenormalizeTokens ==
    /\ pc = "normalized"
    /\ analysis' = [again |-> normalizeIngredients(Str(JoinWithCommas(tokens)))]
    /\ pc' = "renormalized"
    /\ UNCHANGED <<text, tokens, table, refDb, aiEnv, source, trace, response, store, requests>>

NextText ==
    \/ ParseText
    \/ NormalizeText
    \/ AnalyzeRules
    \/ ReparseTokens
    \/ RenormalizeTokens

SpecText == InitText /\ [][NextText]_vars

(***************************************************************************)
(* The dataset lookup of a token list                                      *)
(***************************************************************************)
InitDataset ==
    /\ pc = "tokens"
    /\ text = Undefined
    /\ tokens \in TokenLists
    /\ table \in Tables
    /\ refDb = <<>>
    /\ aiEnv = [url |-> FALSE, service |-> [ok |-> FALSE, data |-> NoBody]]
    /\ analysis = NoAnalysis
    /\ source = "rules"
    /\ trace = NoTrace
    /\ response = NoResponse
    /\ store = EmptyStore
    /\ requests = NoRequests

\* analysis = await analyzeWithDataset(tokens), no query failing
LookupTokens ==
    /\ pc = "tokens"
    /\ analysis' = analyzeWithDataset(tokens, table)
    /\ pc' = "looked"
    /\ UNCHANGED <<text, tokens, table, refDb, aiEnv, source, trace, response, store, requests>>

NextDataset == LookupTokens

SpecDataset == InitDataset /\ [][NextDataset]_vars

(***************************************************************************)
(* The risk vocabularies: a risk word as the AI model may return it, mapped *)
(* by each adapter, and the level converted to the other vocabularies.     *)
(***************************************************************************)
W_toxic == <<"t","o","x","i","c">>
BaseWords == LowWords \cup HighWords \cup OverallMediumWords \cup RestrictedWords
                 \cup RiskyWords \cup {W_toxic, <<>>}
\* a word as written, capitalised as the prompt writes the statuses, in upper case,
\* and with a space at each end
Capitalised(w) == IF w = <<>> THEN w ELSE <<UpperChars[CHOOSE i \in 1..26 : LowerChars[i] = w[1]]>> \o Tail(w)
UpperCase(w) ==
    [i \in 1..Len(w) |->
        IF \E k \in 1..26 : LowerChars[k] = w[i]
        THEN UpperChars[CHOOSE k \in 1..26 : LowerChars[k] = w[i]] ELSE w[i]]
RiskWords ==
    {Str(w) : w \in BaseWords} \cup {Str(Capitalised(w)) : w \in BaseWords}
        \cup {Str(UpperCase(w)) : w \in BaseWords}
        \cup {Str(<<" ">> \o w \o <<" ">>) : w \in BaseWords}
        \cup {Undefined}

InitVocab ==
    /\ pc = "word"
    /\ text \in RiskWords
    /\ tokens = <<>>
    /\ table = <<>>
    /\ refDb = <<>>
    /\ aiEnv = [url |-> FALSE, service |-> [ok |-> FALSE, data |-> NoBody]]
    /\ analysis = NoAnalysis
    /\ source = "rules"
    /\ trace = NoTrace
    /\ response = NoResponse
    /\ store = EmptyStore
    /\ requests = NoRequests

\* status: normalizeStatus(item.status), of parseAIResponse (the ingredient-list flow)
NormalizeStatusWord ==
    /\ pc = "word"
    /\ analysis' = [out |-> normalizeStatus(text)]
    /\ pc' = "status"
    /\ UNCHANGED <<text, tokens, table, refDb, aiEnv, source, trace, response, store, requests>>

\* risk: mapRiskLevel(item.risk), of normalizeAIResponse (the free-text flow)
MapRiskLevelWord ==
    /\ pc = "word"
    /\ analysis' = [out |-> mapRiskLevel(text)]
    /\ pc' = "level"
    /\ UNCHANGED <<text, tokens, table, refDb, aiEnv, source, trace, response, store, requests>>

\* the level of an AI result converted to the rules-tier status (convertAIRuleToFormat),
\* that status converted to the dataset vocabulary (mapStatusToRiskLevel), and the
\* level converted to the scan vocabulary (mapRiskLevelToScanRisk)
ConvertLevel ==
    /\ pc = "level"
    /\ analysis' = [level |-> analysis.out,
                    status |-> AiStatus(analysis.out),
                    back |-> mapStatusToRiskLevel(AiStatus(analysis.out)),
                    scan |-> mapRiskLevelToScanRisk(analysis.out)]
    /\ pc' = "converted"
    /\ UNCHANGED <<text, tokens, table, refDb, aiEnv, source, trace, response, store, requests>>

NextVocab ==
    \/ NormalizeStatusWord
    \/ MapRiskLevelWord
    \/ ConvertLevel

SpecVocab == InitVocab /\ [][NextVocab]_vars

(***************************************************************************)
(* The ingredient-list flow: explainIngredients of the controller          *)
(* (controllers/ai.controller.js) and of the AI adapter                    *)
(* (services/aiExplain.service.js).  Here tokens is req.body.ingredients,  *)
(* aiEnv is [key, replies]: AI_API_KEY is set or not, and what the         *)
(* provider does at the first and at the second call; trace is             *)
(* [prompt, calls, retryCount]; analysis is the results or the error.      *)
(*                                                                         *)
(* The text of a model answer is a sequence of segments [k, name, status]: *)
(* a bracket, a comma, a code fence, the word json, a space, a word of     *)
(* prose, the literal null, or an object literal with its name and status. *)
(***************************************************************************)
Seg(k) == [k |-> k, name |-> Undefined, status |-> Undefined]
Obj(n, st) == [k |-> "object", name |-> n, status |-> st]
IsSpace(seg) == seg.k = "space"

\* String.prototype.trim on a segment sequence
RECURSIVE TrimSegs(_)
TrimSegs(segs) ==
    IF segs = <<>> THEN segs
    ELSE IF IsSpace(Head(segs)) THEN TrimSegs(Tail(segs))
    ELSE IF IsSpace(segs[Len(segs)]) THEN TrimSegs(SubSeq(segs, 1, Len(segs) - 1))
    ELSE segs

\* jsonStr.match(/^```(?:json)?\s*([\s\S]*?)```$/): match[1].trim(), or jsonStr
StripCodeBlock(segs) ==
    IF Len(segs) >= 2 /\ segs[1].k = "fence" /\ segs[Len(segs)].k = "fence"
    THEN LET a == IF Len(segs) >= 3 /\ segs[2].k = "json" THEN 3 ELSE 2
         IN  TrimSegs(SubSeq(segs, a, Len(segs) - 1))
    ELSE segs

\* jsonStr.match(/\[[\s\S]*\]/): from the first '[' to the last ']', or jsonStr
ExtractArray(segs) ==
    LET opens == {i \in 1..Len(segs) : segs[i].k = "open"}
        closes == {i \in 1..Len(segs) : segs[i].k = "close"}
    IN  IF opens # {} /\ closes # {}
        THEN LET first == CHOOSE i \in opens : \A i2 \in opens : i <= i2
                 last == CHOOSE j \in closes : \A j2 \in closes : j2 <= j
             IN  IF first < last THEN SubSeq(segs, first, last) ELSE segs
        ELSE segs

NoSpaces(segs) == SelectSeq(segs, LAMBDA g : ~IsSpace(g))
IsJsonValue(seg) == seg.k \in {"object", "null"}

\* the elements of a JSON array text, when it is one: '[' value (',' value)* ']' or '[]'
IsJsonArray(segs) ==
    LET s == NoSpaces(segs)
    IN  /\ Len(s) >= 2 /\ s[1].k = "open" /\ s[Len(s)].k = "close"
        /\ \/ Len(s) = 2
           \/ /\ Len(s) % 2 = 1
              /\ \A i \in 2..(Len(s) - 1) :
                     IF i % 2 = 0 THEN IsJsonValue(s[i]) ELSE s[i].k = "comma"
ArrayElements(segs) == SelectSeq(NoSpaces(segs), IsJsonValue)

\* JSON.parse(jsonStr) returns: the text is an array, or one value
JsonParses(segs) ==
    IsJsonArray(segs) \/ (Len(NoSpaces(segs)) = 1 /\ IsJsonValue(NoSpaces(segs)[1]))

\* what parseAIResponse hands to JSON.parse
JsonText(responseText) == ExtractArray(StripCodeBlock(TrimSegs(responseText)))

\* error messages
M_notConfigured ==
    <<"A","I"," ","n","o","t"," ","c","o","n","f","i","g","u","r","e","d",
      "."," ","M","i","s","s","i","n","g"," ","A","I","_","A","P","I","_",
      "K","E","Y">>
M_timeout ==
    <<"t","i","m","e","o","u","t"," ","o","f"," ","2","0","0","0","0","m",
      "s"," ","e","x","c","e","e","d","e","d">>
M_network ==
    <<"N","e","t","w","o","r","k"," ","E","r","r","o","r">>
M_httpParser ==
    <<"P","a","r","s","e"," ","E","r","r","o","r",":"," ","E","x","p","e",
      "c","t","e","d"," ","H","T","T","P","/">>
M_invalidOpenAI ==
    <<"I","n","v","a","l","i","d"," ","O","p","e","n","A","I"," ","r","e",
      "s","p","o","n","s","e"," ","f","o","r","m","a","t">>
M_jsonSyntax ==
    <<"U","n","e","x","p","e","c","t","e","d"," ","t","o","k","e","n"," ",
      "H"," ","i","n"," ","J","S","O","N"," ","a","t"," ","p","o","s","i",
      "t","i","o","n"," ","0">>
M_jsonEnd ==
    <<"U","n","e","x","p","e","c","t","e","d"," ","e","n","d"," ","o","f",
      " ","J","S","O","N"," ","i","n","p","u","t">>
M_notAFunction ==
    <<"r","e","s","u","l","t","s",".","m","a","p"," ","i","s"," ","n","o",
      "t"," ","a"," ","f","u","n","c","t","i","o","n">>
M_nullItem ==
    <<"C","a","n","n","o","t"," ","r","e","a","d"," ","p","r","o","p","e",
      "r","t","i","e","s"," ","o","f"," ","n","u","l","l"," ","(","r","e",
      "a","d","i","n","g"," ","'","n","a","m","e","'",")">>
M_unavailable ==
    <<"A","I"," ","s","e","r","v","i","c","e"," ","u","n","a","v","a","i",
      "l","a","b","l","e">>
W_JSON == <<"J","S","O","N">>
W_parse == <<"p","a","r","s","e">>
W_notConfiguredMark ==
    <<"n","o","t"," ","c","o","n","f","i","g","u","r","e","d">>
W_timeoutMark ==
    <<"t","i","m","e","o","u","t">>

Err(message, code) == [ok |-> FALSE, message |-> message, code |-> code, results |-> <<>>]
Ok(results) == [ok |-> TRUE, message |-> <<>>, code |-> "", results |-> results]

\* results.map(item => ({ name, status: normalizeStatus(item.status) })).filter(item => item.name)
MapItems(elements) ==
    SelectSeq([i \in 1..Len(elements) |->
                  [name |-> IF Truthy(elements[i].name) THEN Trim(elements[i].name.s)
                            ELSE <<>>,
                   status |-> normalizeStatus(elements[i].status)]],
              LAMBDA item : item.name # <<>>)

\* parseAIResponse(responseText): the results, or the error it throws
parseAIResponse(responseText) ==
    LET jsonStr == JsonText(responseText)
    IN  IF ~JsonParses(jsonStr)
        THEN Err(IF jsonStr = <<>> THEN M_jsonEnd ELSE M_jsonSyntax, "")
        ELSE IF ~IsJsonArray(jsonStr) THEN Err(M_notAFunction, "")
        ELSE IF \E i \in 1..Len(ArrayElements(jsonStr)) : ArrayElements(jsonStr)[i].k = "null"
        THEN Err(M_nullItem, "")
        ELSE Ok(MapItems(ArrayElements(jsonStr)))

\* callOpenAI then parseAIResponse: one pass through the try block of callAIWithRetry
Attempt(reply) ==
    IF reply.kind = "error" THEN Err(reply.message, reply.code)
    ELSE IF reply.kind = "nocontent" THEN Err(M_invalidOpenAI, "")
    ELSE parseAIResponse(reply.content)

\* the mutant of ShouldRetry below: every error of the first attempt is retried
ShouldRetryAnyError(retryCount, error) == retryCount < 1

\* retryCount < 1 && (error.message.includes('JSON') || error.message.includes('parse'))
ShouldRetry(retryCount, error) ==
    retryCount < 1 /\ (Includes(error.message, W_JSON) \/ Includes(error.message, W_parse))

\* buildPrompt(ingredients): the fixed instructions around one line per ingredient; a
\* corrected prompt is the prompt plus the 'MUST return only valid JSON' paragraph
buildPrompt(ingredients) ==
    [lines |-> [i \in 1..Len(ingredients) |-> <<"-", " ">> \o ingredients[i]],
     corrections |-> 0]
CorrectedPrompt(prompt) == [prompt EXCEPT !.corrections = @ + 1]

\* the catch of the controller: three tests, one answer
ExplainErrorResponse(error) ==
    IF Includes(error.message, W_notConfiguredMark)
    THEN [status |-> 503, error |-> M_unavailable, body |-> <<>>]
    ELSE IF error.code = "ECONNABORTED" \/ Includes(error.message, W_timeoutMark)
    THEN [status |-> 503, error |-> M_unavailable, body |-> <<>>]
    ELSE [status |-> 503, error |-> M_unavailable, body |-> <<>>]

\* what the provider does at a call
ObjAbSafe == Obj(Str(<<"a","b">>), Str(W_safe))
ObjCdHighRisk == Obj(Str(<<" ","c","d">>), Str(<<"H","i","g","h"," ","r","i","s","k">>))
ObjEfNoStatus == Obj(Str(<<"e","f">>), Undefined)
ObjNoName == Obj(Undefined, Str(W_risky))
Contents ==
    {<<Seg("open"), ObjAbSafe, Seg("close")>>,
     <<Seg("fence"), Seg("json"), Seg("space"), Seg("open"), ObjCdHighRisk, Seg("comma"),
       ObjEfNoStatus, Seg("close"), Seg("space"), Seg("fence")>>,
     <<Seg("prose"), Seg("space"), Seg("open"), ObjAbSafe, Seg("comma"), ObjNoName,
       Seg("close"), Seg("space"), Seg("prose")>>,
     <<Seg("open"), Seg("close")>>,
     <<Seg("prose"), Seg("space"), Seg("prose")>>,
     <<Seg("open"), ObjAbSafe, Seg("comma"), Seg("close")>>,
     <<Seg("open"), ObjAbSafe, Seg("comma")>>,
     <<Seg("open"), Seg("prose"), Seg("close"), Seg("space"), Seg("open"), ObjAbSafe,
       Seg("close")>>,
     <<Seg("space")>>,
     <<ObjAbSafe>>,
     <<Seg("open"), Seg("null"), Seg("close")>>,
     <<Seg("open"), ObjAbSafe, Seg("close"), Seg("space"), Seg("prose"), Seg("space"),
       Seg("open"), Seg("prose"), Seg("close")>>}
Replies ==
    {[kind |-> "content", content |-> c, message |-> <<>>, code |-> ""] : c \in Contents}
    \cup {[kind |-> "nocontent", content |-> <<>>, message |-> <<>>, code |-> ""],
          [kind |-> "error", content |-> <<>>, message |-> M_timeout,
           code |-> "ECONNABORTED"],
          [kind |-> "error", content |-> <<>>, message |-> M_network,
           code |-> "ERR_NETWORK"],
          [kind |-> "error", content |-> <<>>, message |-> M_httpParser,
           code |-> "HPE_INVALID_CONSTANT"]}
\* req.body.ingredients after validateIngredients: one string at least, each of two
\* characters at least
IngredientLists == {<<<<"a","b">>>>, <<<<"a","b">>, <<"c","d">>>>}

InitExplain ==
    /\ pc = "start"
    /\ text = Undefined
    /\ tokens \in IngredientLists
    /\ table = <<>>
    /\ refDb = <<>>
    /\ aiEnv \in [key : BOOLEAN, replies : Replies \X Replies]
    /\ analysis = NoAnalysis
    /\ source = "ai"
    /\ trace = [prompt |-> buildPrompt(<<>>), calls |-> <<>>, retryCount |-> 0]
    /\ response = NoResponse
    /\ store = EmptyStore
    /\ requests = NoRequests

\* explainIngredients of the adapter, up to the first call: the credential test and
\* buildPrompt
ExplainStart ==
    /\ pc = "start"
    /\ IF ~aiEnv.key
       THEN /\ analysis' = Err(M_notConfigured, "")
            /\ pc' = "caught"
            /\ trace' = trace
       ELSE /\ trace' = [trace EXCEPT !.prompt = buildPrompt(tokens)]
            /\ pc' = "call"
            /\ analysis' = analysis
    /\ UNCHANGED <<text, tokens, table, refDb, aiEnv, source, response, store, requests>>

\* callAIWithRetry(provider, apiKey, model, prompt, retryCount): one call of the
\* provider, the parse of its answer, and the catch that retries or rethrows
CallWithRetry ==
    /\ pc = "call"
    /\ LET n == Len(trace.calls) + 1
           outcome == Attempt(aiEnv.replies[n])
       IN  IF outcome.ok
           THEN /\ analysis' = outcome
                /\ trace' = [trace EXCEPT !.calls = Append(@, trace.prompt)]
                /\ pc' = "respond"
           ELSE IF ShouldRetry(trace.retryCount, outcome)
           THEN /\ analysis' = analysis
                /\ trace' = [trace EXCEPT !.calls = Append(@, trace.prompt),
                                          !.prompt = CorrectedPrompt(@),
                                          !.retryCount = @ + 1]
                /\ pc' = "call"
           ELSE /\ analysis' = outcome
                /\ trace' = [trace EXCEPT !.calls = Append(@, trace.prompt)]
                /\ pc' = "caught"
    /\ UNCHANGED <<text, tokens, table, refDb, aiEnv, source, response, store, requests>>

\* the controller: res.json(results), or the catch
ExplainRespond ==
    /\ pc \in {"respond", "caught"}
    /\ response' = IF pc = "respond"
                   THEN [status |-> 200, error |-> <<>>, body |-> analysis.results]
                   ELSE ExplainErrorResponse(analysis)
    /\ pc' = "done"
    /\ UNCHANGED <<text, tokens, table, refDb, aiEnv, analysis, source, trace, store, requests>>

NextExplain ==
    \/ ExplainStart
    \/ CallWithRetry
    \/ ExplainRespond

SpecExplain == InitExplain /\ [][NextExplain]_vars

(***************************************************************************)
(* Saving a scan: the transaction of analyzeText and of scanImage          *)
(* (controllers/scan.controller.js) over the tables scans, ingredients and *)
(* scan_ingredients (db/schema.sql).  Checked under SpecPersist: two       *)
(* requests run at once, each on its own pooled client; a statement of a   *)
(* transaction sees the committed rows and the rows of its own             *)
(* transaction; any statement can fail.                                    *)
(***************************************************************************)
Callers == {"r1", "r2"}

\* the verdicts a request can come to save, computed by the tiers
VerdictKinds == {"dataset", "ai", "rules", "rulesNone"}
RulesOnlyKinds == {"rules", "rulesNone"}
SavedAiAnswer ==
    [risk_level |-> Str(W_low), list |-> "matched_ingredients",
     items |-> <<AiItem(Str(<<"A","b">>), Str(W_low)),
                 AiItem(Str(<<"A","b">>), Str(W_unsafe))>>]
SavedRefDb == <<RefEntry(<<"a","b">>, "Safe"), RefEntry(W_paraben, "Restricted")>>
SourceOf(kind) == IF kind \in RulesOnlyKinds THEN "rules" ELSE kind
AnalysisOf(kind) ==
    CASE kind = "dataset" -> analyzeTextWithDataset(Str(T_ab_cd), <<Rowxy, RowAb>>)
      [] kind = "ai" -> convertAIRuleToFormat(normalizeAIResponse(SavedAiAnswer))
      [] kind = "rules" -> analyzeRuleBased(SavedRefDb, Str(T_pipe))
      [] kind = "rulesNone" -> analyzeRuleBased(SavedRefDb, Str(T_short))

\* analysis.results && analysis.results.length > 0 ? analysis.results : nothing
ResultsToSave(a) == IF "results" \in DOMAIN a THEN a.results ELSE <<>>

NoTransaction == [open |-> FALSE, scan |-> 0, ingredients |-> {}, links |-> {}]
NotFound == [hit |-> FALSE, name |-> <<>>]

\* the pc values at which a statement of the transaction is about to be sent
StatementPcs == {"begin", "insertScan", "select", "insertIngredient", "commit"}

\* the rows a SELECT of request r can see: committed ones and those of its transaction
VisibleIngredients(r) == store.ingredients \cup requests[r].tx.ingredients

\* the ingredient the loop is at
CurrentResult(r) == ResultsToSave(requests[r].analysis)[requests[r].next]

\* name TEXT UNIQUE: an insert of a name another open transaction has inserted waits
\* for that transaction to end
HeldByOther(r, name) ==
    \E o \in Callers \ {r} : requests[o].tx.open /\ name \in requests[o].tx.ingredients

InitPersist ==
    /\ pc = "persist"
    /\ text = Undefined
    /\ tokens = <<>>
    /\ table = <<>>
    /\ refDb = SavedRefDb
    /\ aiEnv = [url |-> FALSE]
    /\ analysis = NoAnalysis
    /\ source = "rules"
    /\ trace = NoTrace
    /\ response = NoResponse
    /\ store \in {EmptyStore, [EmptyStore EXCEPT !.ingredients = {<<"a","b">>}]}
    /\ \E h \in [Callers -> {"analyzeText", "scanImage"}],
          u \in [Callers -> BOOLEAN],
          v \in [Callers -> VerdictKinds] :
          \* scanImage analyses a text of three characters at least by the rules
          /\ \A r \in Callers : h[r] = "scanImage" => v[r] = "rules"
          /\ requests = [r \in Callers |->
                            [handler |-> h[r], user |-> u[r], verdict |-> v[r],
                             source |-> SourceOf(v[r]), analysis |-> AnalysisOf(v[r]),
                             pc |-> "user", next |-> 1, found |-> NotFound,
                             scanId |-> 0, tx |-> NoTransaction, outcome |-> "none",
                             cause |-> "none",
                             response |-> NoResponse]]

\* if (userId) { ... } of analyzeText; scanImage saves whoever the caller is
CheckUser(r) ==
    /\ requests[r].pc = "user"
    /\ requests' = [requests EXCEPT ![r].pc =
                       IF requests[r].handler = "analyzeText" /\ ~requests[r].user
                       THEN "respond" ELSE "begin"]
    /\ UNCHANGED <<pc, text, tokens, table, refDb, aiEnv, analysis, source, trace,
                   response, store>>

\* await client.query('BEGIN')
BeginTransaction(r) ==
    /\ requests[r].pc = "begin"
    /\ requests' = [requests EXCEPT ![r].pc = "insertScan", ![r].tx.open = TRUE]
    /\ UNCHANGED <<pc, text, tokens, table, refDb, aiEnv, analysis, source, trace,
                   response, store>>

\* INSERT INTO scans ... RETURNING id; scanId = scanResult.rows[0].id.  The id comes
\* from a sequence, which a rollback does not take back.
InsertScan(r) ==
    /\ requests[r].pc = "insertScan"
    /\ store' = [store EXCEPT !.nextScanId = @ + 1]
    /\ requests' = [requests EXCEPT
           ![r].scanId = store.nextScanId,
           ![r].tx.scan = store.nextScanId,
           ![r].pc = IF ResultsToSave(requests[r].analysis) # <<>>
                     THEN "select" ELSE "commit"]
    /\ UNCHANGED <<pc, text, tokens, table, refDb, aiEnv, analysis, source, trace,
                   response>>

\* SELECT id FROM ingredients WHERE LOWER(name) = LOWER($1), and rows[0] of it
SelectIngredient(r) ==
    /\ requests[r].pc = "select"
    /\ LET wanted == ToLowerCase(CurrentResult(r).ingredient)
           rows == {n \in VisibleIngredients(r) : ToLowerCase(n) = wanted}
       IN  IF rows = {}
           THEN requests' = [requests EXCEPT ![r].found = NotFound,
                                             ![r].pc = "insertIngredient"]
           ELSE \E n \in rows :
                   requests' = [requests EXCEPT ![r].found = [hit |-> TRUE, name |-> n],
                                                ![r].pc = "insertIngredient"]
    /\ UNCHANGED <<pc, text, tokens, table, refDb, aiEnv, analysis, source, trace,
                   response, store>>

\* INSERT INTO ingredients when the select found no row (a name committed meanwhile
\* violates the unique constraint: the statement throws), INSERT INTO
\* scan_ingredients, and the step of the loop
InsertScanIngredient(r) ==
    /\ requests[r].pc = "insertIngredient"
    /\ LET name == CurrentResult(r).ingredient
           q == requests[r]
           last == q.next = Len(ResultsToSave(q.analysis))
           link(ing) == [scan |-> q.tx.scan, pos |-> q.next, ingredient |-> ing,
                         raw_text |-> name, risk |-> CurrentResult(r).status]
       IN  IF q.found.hit
           THEN requests' = [requests EXCEPT
                    ![r].tx.links = @ \cup {link(q.found.name)},
                    ![r].next = @ + 1,
                    ![r].pc = IF last THEN "commit" ELSE "select"]
           ELSE /\ ~HeldByOther(r, name)
                /\ IF name \in store.ingredients
                   THEN requests' = [requests EXCEPT ![r].pc = "rollback",
                                                     ![r].cause = "unique"]
                   ELSE requests' = [requests EXCEPT
                            ![r].tx.ingredients = @ \cup {name},
                            ![r].tx.links = @ \cup {link(name)},
                            ![r].next = @ + 1,
                            ![r].pc = IF last THEN "commit" ELSE "select"]
    /\ UNCHANGED <<pc, text, tokens, table, refDb, aiEnv, analysis, source, trace,
                   response, store>>

\* await client.query('COMMIT'): the rows of the transaction become visible at once
CommitTransaction(r) ==
    /\ requests[r].pc = "commit"
    /\ store' = [store EXCEPT
           !.scans = @ \cup {[id |-> requests[r].tx.scan, by |-> r]},
           !.ingredients = @ \cup requests[r].tx.ingredients,
           !.links = @ \cup requests[r].tx.links]
    /\ requests' = [requests EXCEPT ![r].tx = NoTransaction,
                                    ![r].outcome = "committed",
                                    ![r].pc = "respond"]
    /\ UNCHANGED <<pc, text, tokens, table, refDb, aiEnv, analysis, source, trace,
                   response>>

\* a statement of the transaction throws for a reason outside the two requests
\* (connection lost, server error); cause records what the catch caught
QueryFails(r) ==
    /\ requests[r].pc \in StatementPcs
    /\ requests' = [requests EXCEPT ![r].pc = "rollback", ![r].cause = "statement"]
    /\ UNCHANGED <<pc, text, tokens, table, refDb, aiEnv, analysis, source, trace,
                   response, store>>

\* a catch that answers 500 in both handlers
AfterRollbackAlwaysFails(handler) == "fail"

\* after the catch: analyzeText logs a warning and goes on to build its response,
\* scanImage answers 500
AfterRollback(handler) == IF handler = "analyzeText" THEN "respond" ELSE "fail"

\* await client.query('ROLLBACK').catch(() => {}): the rows of the transaction are
\* discarded whether the statement arrives or the connection is gone
RollbackTransaction(r) ==
    /\ requests[r].pc = "rollback"
    /\ requests' = [requests EXCEPT ![r].tx = NoTransaction,
                                    ![r].outcome = "failed",
                                    ![r].pc = AfterRollback(requests[r].handler)]
    /\ UNCHANGED <<pc, text, tokens, table, refDb, aiEnv, analysis, source, trace,
                   response, store>>

\* res.json(...) of either handler, or res.status(500).json(...) of scanImage
SavedResponse(q) ==
    IF q.pc = "fail" THEN [status |-> 500, error |-> "Scan processing failed"]
    ELSE IF q.handler = "analyzeText"
    THEN [scanId |-> q.scanId] @@ BuildResponse(q.source, q.analysis)
    ELSE [scanId |-> q.scanId, status |-> 200] @@ q.analysis

SendResponse(r) ==
    /\ requests[r].pc \in {"respond", "fail"}
    /\ requests' = [requests EXCEPT ![r].response = SavedResponse(requests[r]),
                                    ![r].pc = "done"]
    /\ UNCHANGED <<pc, text, tokens, table, refDb, aiEnv, analysis, source, trace,
                   response, store>>

NextPersist ==
    \/ \E r \in Callers : CheckUser(r)
    \/ \E r \in Callers : BeginTransaction(r)
    \/ \E r \in Callers : InsertScan(r)
    \/ \E r \in Callers : SelectIngredient(r)
    \/ \E r \in Callers : InsertScanIngredient(r)
    \/ \E r \in Callers : CommitTransaction(r)
    \/ \E r \in Callers : QueryFails(r)
    \/ \E r \in Callers : RollbackTransaction(r)
    \/ \E r \in Callers : SendResponse(r)

SpecPersist == InitPersist /\ [][NextPersist]_vars

(***************************************************************************)
(* The classification of one ingredient: classifyIngredient                *)
(* (utils/riskClassifier.js) and the public lookup endpoint                *)
(* lookupIngredient (controllers/lookup.controller.js), both over the      *)
(* reference table ingredients.json.  Checked under SpecClassify: text is  *)
(* the ingredient handed in, refDb the table, analysis what                *)
(* classifyIngredient returns and response what the endpoint answers.      *)
(***************************************************************************)
ClassEntry(k, st, ex) == [key |-> k, status |-> st, explanation |-> ex]
W_xpar == <<"x","p","a","r">>
W_arab == <<"a","r","a","b">>
W_parf == <<"p","a","r","f">>
\* reference tables: without entries, with and without the entries of the two
\* families, with keys that lie in one another in both orders, with a key of three
\* characters
ClassifyTables ==
    {<<>>,
     <<ClassEntry(W_xpar, "Risky", "e1"), ClassEntry(W_paraben, "Restricted", "e2"),
       ClassEntry(<<"a","b">>, "Safe", "e3"), ClassEntry(W_fragrance, "Restricted", "e4"),
       ClassEntry(W_water, "Safe", "e5")>>,
     <<ClassEntry(W_paraben, "Restricted", "e2"), ClassEntry(W_xpar, "Risky", "e1"),
       ClassEntry(W_arab, "Safe", "e6")>>,
     <<ClassEntry(<<"a","b">>, "Safe", "e3"), ClassEntry(W_water, "Safe", "e5"),
       ClassEntry(<<"a","b","c">>, "Risky", "e7")>>,
     <<ClassEntry(W_fragrance, "Risky", "e4"), ClassEntry(W_parf, "Safe", "e8")>>}

\* the ingredient handed in: a string, the empty string, or nothing
ClassifyInputs ==
    {Str(<<"a","b">>),
     Str(<<"A","B"," ">>),
     Str(<<"a","(","b",")">>),
     Str(<<"a","b","c","d">>),
     Str(<<"x","p","a","r","a","b","e","n">>),
     Str(<<"X","p","a","r","a","b","e","n","s">>),
     Str(<<"p","a","r","a","b","e","n">>),
     Str(<<"p","a","r","f","u","m">>),
     Str(<<"p","e","r","f","u","m","e">>),
     Str(<<"p","a","r","f","u","m","p","a","r","a","b","e","n">>),
     Str(<<"f","r","a","g","r","a","n","c","e"," ","x">>),
     Str(<<"a","q","u","a">>),
     Str(<<"w","a","t","e","r">>),
     Str(<<"x","y","z">>),
     Str(<<"c","o","n","s","t","r","u","c","t","o","r">>),
     Str(<<"_","_","p","r","o","t","o","_","_">>),
     Str(<<"(",")">>),
     Str(<<" ">>),
     Str(<<>>), Undefined}

\* hit.status.toLowerCase(), which throws a TypeError when hit has no status
LowerStatus(st) ==
    CASE st = "Safe" -> "safe"
      [] st = "Risky" -> "risky"
      [] st = "Restricted" -> "restricted"
      [] st = "Unknown" -> "unknown"
      [] OTHER -> st

\* res.json({ ingredient, status, explanation, matchedKey })
LookupAnswer(normalized, hit, key) ==
    [status |-> 200, ingredient |-> normalized, risk |-> LowerStatus(hit.status),
     explanation |-> hit.explanation, matchedKey |-> key]
\* next(e) and the error handler: status 500
LookupError == [status |-> 500, ingredient |-> <<>>, risk |-> "", explanation |-> "",
                matchedKey |-> SqlNull]
LookupBadRequest == [status |-> 400, ingredient |-> <<>>, risk |-> "", explanation |-> "",
                     matchedKey |-> SqlNull]

\* lookupIngredient(req, res, next) for req.query.ingredient = v
lookupIngredient(db, v) ==
    IF IsFalsyOrNotString(v) THEN LookupBadRequest
    ELSE LET normalized == normalizeForMatch(v.s)
             searchKey == IF ApplySynonym(normalized) # normalized
                          THEN normalizeForMatch(ApplySynonym(normalized)) ELSE normalized
         IN  IF HasKey(db, searchKey)
             THEN LookupAnswer(normalized, Entry(db, searchKey), Str(searchKey))
             \* an inherited property is truthy and has no status
             ELSE IF searchKey \in InheritedKeys THEN LookupError
             ELSE IF ContainedKeys(db, searchKey) # <<>>
             THEN LookupAnswer(normalized, ContainedKeys(db, searchKey)[1],
                               Str(ContainedKeys(db, searchKey)[1].key))
             ELSE IF Includes(searchKey, W_paraben)
             \* const hit = ingredientDb['paraben'], with no default
             THEN IF HasKey(db, W_paraben)
                  THEN LookupAnswer(normalized, Entry(db, W_paraben), Str(W_paraben))
                  ELSE LookupError
             ELSE IF Includes(searchKey, W_fragrance) \/ Includes(searchKey, W_parfum)
             THEN IF HasKey(db, W_fragrance)
                  THEN LookupAnswer(normalized, Entry(db, W_fragrance), Str(W_fragrance))
                  ELSE LookupError
             ELSE [status |-> 200, ingredient |-> normalized, risk |-> "unknown",
                   explanation |-> "Not found in the current SafeScan reference list.",
                   matchedKey |-> SqlNull]

InitClassify ==
    /\ pc = "start"
    /\ text \in ClassifyInputs
    /\ tokens = <<>>
    /\ table = <<>>
    /\ refDb \in ClassifyTables
    /\ aiEnv = [url |-> FALSE]
    /\ analysis = NoAnalysis
    /\ source = "rules"
    /\ trace = NoTrace
    /\ response = NoResponse
    /\ store = EmptyStore
    /\ requests = NoRequests

\* classifyIngredient(rawIngredient): normalizeForMatch(rawIngredient || '')
ClassifyOne ==
    /\ pc = "start"
    /\ analysis' = classifyIngredient(refDb, IF Truthy(text) THEN text.s ELSE <<>>)
    /\ pc' = "classified"
    /\ UNCHANGED <<text, tokens, table, refDb, aiEnv, source, trace, response, store, requests>>

\* GET /api/lookup?ingredient=...
LookupOne ==
    /\ pc = "classified"
    /\ response' = lookupIngredient(refDb, text)
    /\ pc' = "answered"
    /\ UNCHANGED <<text, tokens, table, refDb, aiEnv, analysis, source, trace, store, requests>>

NextClassify ==
    \/ ClassifyOne
    \/ LookupOne

SpecClassify == InitClassify /\ [][NextClassify]_vars

(***************************************************************************)
(* The OCR worker singleton: getWorker and extractTextFromImage            *)
(* (services/ocr.service.js).  Checked under SpecOcr: store is the state   *)
(* of the module, [worker, initializing, created]: the worker exists or    *)
(* not, the promise initializing is null, pending, resolved or rejected,   *)
(* and how often createWorker was invoked; requests holds the calls of     *)
(* extractTextFromImage, which interleave at their awaits.                 *)
(***************************************************************************)
OcrCalls == {"c1", "c2", "c3"}
OcrModule == [worker |-> FALSE, initializing |-> "null", created |-> 0]

InitOcr ==
    /\ pc = "ocr"
    /\ text = Undefined
    /\ tokens = <<>>
    /\ table = <<>>
    /\ refDb = <<>>
    /\ aiEnv = [url |-> FALSE]
    /\ analysis = NoAnalysis
    /\ source = "rules"
    /\ trace = NoTrace
    /\ response = NoResponse
    /\ store = OcrModule
    /\ \E b \in [OcrCalls -> BOOLEAN] :
          requests = [c \in OcrCalls |->
                         [pc |-> "idle", buffer |-> b[c], arrival |-> "none",
                          started |-> FALSE, result |-> "none"]]

\* extractTextFromImage up to its first await: the buffer test, then getWorker, which
\* returns the worker, or the promise initializing, or starts the initialization
\* (createWorker is invoked before the first await of the async function)
OcrCallArrives(c) ==
    /\ requests[c].pc = "idle"
    /\ IF ~requests[c].buffer
       THEN /\ requests' = [requests EXCEPT ![c].pc = "failed", ![c].arrival = "invalid",
                                            ![c].result = "Invalid image buffer"]
            /\ store' = store
       ELSE IF store.worker
       THEN /\ requests' = [requests EXCEPT ![c].pc = "recognize", ![c].arrival = "ready"]
            /\ store' = store
       ELSE IF store.initializing # "null"
       THEN /\ requests' = [requests EXCEPT ![c].pc = "awaitWorker",
                                            ![c].arrival = store.initializing]
            /\ store' = store
       ELSE /\ requests' = [requests EXCEPT ![c].pc = "awaitWorker", ![c].arrival = "fresh",
                                            ![c].started = TRUE]
            /\ store' = [store EXCEPT !.initializing = "pending", !.created = @ + 1]
    /\ UNCHANGED <<pc, text, tokens, table, refDb, aiEnv, analysis, source, trace, response>>

\* createWorker, loadLanguage and initialize resolve: worker = w
OcrInitSucceeds ==
    /\ store.initializing = "pending"
    /\ store' = [store EXCEPT !.worker = TRUE, !.initializing = "resolved"]
    /\ UNCHANGED <<pc, text, tokens, table, refDb, aiEnv, analysis, source, trace, response,
                   requests>>

\* one of them rejects: the promise initializing is rejected, and nothing resets it
OcrInitFails ==
    /\ store.initializing = "pending"
    /\ store' = [store EXCEPT !.initializing = "rejected"]
    /\ UNCHANGED <<pc, text, tokens, table, refDb, aiEnv, analysis, source, trace, response,
                   requests>>

\* const w = await getWorker() settles
OcrAwaitSettles(c) ==
    /\ requests[c].pc = "awaitWorker"
    /\ store.initializing \in {"resolved", "rejected"}
    /\ requests' = [requests EXCEPT
           ![c].pc = IF store.initializing = "resolved" THEN "recognize" ELSE "failed",
           ![c].result = IF store.initializing = "resolved" THEN @ ELSE "init failed"]
    /\ UNCHANGED <<pc, text, tokens, table, refDb, aiEnv, analysis, source, trace, response,
                   store>>

\* await w.recognize(imageBuffer): the text, or the error of the worker
OcrRecognize(c) ==
    /\ requests[c].pc = "recognize"
    /\ \E ok \in BOOLEAN :
          requests' = [requests EXCEPT ![c].pc = IF ok THEN "done" ELSE "failed",
                                       ![c].result = IF ok THEN "text" ELSE "recognize failed"]
    /\ UNCHANGED <<pc, text, tokens, table, refDb, aiEnv, analysis, source, trace, response,
                   store>>

NextOcr ==
    \/ \E c \in OcrCalls : OcrCallArrives(c)
    \/ OcrInitSucceeds
    \/ OcrInitFails
    \/ \E c \in OcrCalls : OcrAwaitSettles(c)
    \/ \E c \in OcrCalls : OcrRecognize(c)

SpecOcr == InitOcr /\ [][NextOcr]_vars

(***************************************************************************)
(* The connection pool: the clients that scanImage, analyzeText            *)
(* (controllers/scan.controller.js) and analyzeWithDataset                 *)
(* (services/datasetAnalysis.service.js) take from new Pool(poolConfig)    *)
(* (db/index.js), which sets no connection timeout: connect() and query()  *)
(* wait until a connection is free.  Checked under SpecPool: store is      *)
(* [free], the connections not checked out; requests holds, per request,   *)
(* its position, its two clients and how it left the try block.            *)
(***************************************************************************)
PoolSize == 2
PoolCallers == {"p1", "p2", "p3"}

\* the pcs at which a request asks the pool for a connection
PoolWaitPcs == {"connect", "availability", "lookup"}

InitPool ==
    /\ pc = "pool"
    /\ text = Undefined
    /\ tokens = <<>>
    /\ table = <<>>
    /\ refDb = <<>>
    /\ aiEnv = [url |-> FALSE]
    /\ analysis = NoAnalysis
    /\ source = "rules"
    /\ trace = NoTrace
    /\ response = NoResponse
    /\ store = [free |-> PoolSize]
    /\ \E h \in [PoolCallers -> {"analyzeText", "scanImage"}] :
          requests = [r \in PoolCallers |->
                         [handler |-> h[r], pc |-> "connect", client |-> "none",
                          lookupClient |-> "none", exit |-> "none"]]

\* const client = await db.pool.connect(), the first statement of both handlers
HandlerConnect(r) ==
    /\ requests[r].pc = "connect"
    /\ store.free > 0
    /\ store' = [store EXCEPT !.free = @ - 1]
    /\ requests' = [requests EXCEPT ![r].client = "held", ![r].pc = "try"]
    /\ UNCHANGED <<pc, text, tokens, table, refDb, aiEnv, analysis, source, trace, response>>

\* the pool cannot open a connection: connect() rejects before the try block, the
\* handler holds no client
HandlerConnectFails(r) ==
    /\ requests[r].pc = "connect"
    /\ store.free > 0
    /\ requests' = [requests EXCEPT ![r].pc = "done", ![r].exit = "rejected"]
    /\ UNCHANGED <<pc, text, tokens, table, refDb, aiEnv, analysis, source, trace, response,
                   store>>

\* the start of the try block.  scanImage: no file (400), OCR failure (503, 500), text
\* too short (422), or the analysis and the transaction on its client, which succeed
\* or end in the catch.  analyzeText: text missing (400), or on to the availability
\* check.
EnterTry(r) ==
    /\ requests[r].pc = "try"
    /\ IF requests[r].handler = "scanImage"
       THEN \E e \in {"invalid", "ocrFailed", "unreadable", "answered", "error"} :
               requests' = [requests EXCEPT ![r].pc = "finally", ![r].exit = e]
       ELSE \/ requests' = [requests EXCEPT ![r].pc = "finally", ![r].exit = "invalid"]
            \/ requests' = [requests EXCEPT ![r].pc = "availability"]
    /\ UNCHANGED <<pc, text, tokens, table, refDb, aiEnv, analysis, source, trace, response,
                   store>>

\* isDatasetAvailable: db.pool.query(...) takes a connection of the same pool
AvailabilityQueryStarts(r) ==
    /\ requests[r].pc = "availability"
    /\ store.free > 0
    /\ store' = [store EXCEPT !.free = @ - 1]
    /\ requests' = [requests EXCEPT ![r].pc = "availabilityRuns"]
    /\ UNCHANGED <<pc, text, tokens, table, refDb, aiEnv, analysis, source, trace, response>>

\* the query ends and pool.query gives its connection back: the dataset has rows, or
\* it has none or the query failed (false)
AvailabilityQueryEnds(r) ==
    /\ requests[r].pc = "availabilityRuns"
    /\ store' = [store EXCEPT !.free = @ + 1]
    /\ \E available \in BOOLEAN :
          requests' = [requests EXCEPT ![r].pc = IF available THEN "dataset" ELSE "rest"]
    /\ UNCHANGED <<pc, text, tokens, table, refDb, aiEnv, analysis, source, trace, response>>

\* analyzeTextWithDataset: no token, no connection; else analyzeWithDataset connects
DatasetTokens(r) ==
    /\ requests[r].pc = "dataset"
    /\ \E some \in BOOLEAN :
          requests' = [requests EXCEPT ![r].pc = IF some THEN "lookup" ELSE "rest"]
    /\ UNCHANGED <<pc, text, tokens, table, refDb, aiEnv, analysis, source, trace, response,
                   store>>

\* const client = await db.pool.connect() of analyzeWithDataset
LookupConnect(r) ==
    /\ requests[r].pc = "lookup"
    /\ store.free > 0
    /\ store' = [store EXCEPT !.free = @ - 1]
    /\ requests' = [requests EXCEPT ![r].lookupClient = "held", ![r].pc = "lookupRuns"]
    /\ UNCHANGED <<pc, text, tokens, table, refDb, aiEnv, analysis, source, trace, response>>

\* the queries of analyzeWithDataset return or throw; finally { client.release() }
LookupEnds(r) ==
    /\ requests[r].pc = "lookupRuns"
    /\ store' = [store EXCEPT !.free = @ + 1]
    /\ requests' = [requests EXCEPT
           ![r].lookupClient = IF @ = "held" THEN "released" ELSE "released twice",
           ![r].pc = "rest"]
    /\ UNCHANGED <<pc, text, tokens, table, refDb, aiEnv, analysis, source, trace, response>>

\* the rest of the try block of analyzeText: the other tiers, the transaction on the
\* handler's client (its failure is swallowed), res.json; or an exception and the catch
RestOfTry(r) ==
    /\ requests[r].pc = "rest"
    /\ \E e \in {"answered", "error"} :
          requests' = [requests EXCEPT ![r].pc = "finally", ![r].exit = e]
    /\ UNCHANGED <<pc, text, tokens, table, refDb, aiEnv, analysis, source, trace, response,
                   store>>

\* a finally block that an early return would skip
FinallyRunsUnlessReturned(exit) == exit \notin {"invalid", "ocrFailed", "unreadable"}

\* finally { client.release() } runs however the try block was left
FinallyRuns(exit) == TRUE

Finally(r) ==
    /\ requests[r].pc = "finally"
    /\ IF FinallyRuns(requests[r].exit)
       THEN /\ store' = [store EXCEPT !.free = @ + 1]
            /\ requests' = [requests EXCEPT
                   ![r].client = IF @ = "held" THEN "released" ELSE "released twice",
                   ![r].pc = "done"]
       ELSE /\ store' = store
            /\ requests' = [requests EXCEPT ![r].pc = "done"]
    /\ UNCHANGED <<pc, text, tokens, table, refDb, aiEnv, analysis, source, trace, response>>

NextPool ==
    \/ \E r \in PoolCallers : HandlerConnect(r)
    \/ \E r \in PoolCallers : HandlerConnectFails(r)
    \/ \E r \in PoolCallers : EnterTry(r)
    \/ \E r \in PoolCallers : AvailabilityQueryStarts(r)
    \/ \E r \in PoolCallers : AvailabilityQueryEnds(r)
    \/ \E r \in PoolCallers : DatasetTokens(r)
    \/ \E r \in PoolCallers : LookupConnect(r)
    \/ \E r \in PoolCallers : LookupEnds(r)
    \/ \E r \in PoolCallers : RestOfTry(r)
    \/ \E r \in PoolCallers : Finally(r)

SpecPool == InitPool /\ [][NextPool]_vars

(***************************************************************************)
(* The ingredients section of a label text: extractIngredientsSection      *)
(* (utils/extractIngredientsSection.js).  Checked under SpecSection: text  *)
(* is the OCR text, analysis the section returned.                         *)
(***************************************************************************)
startMarkers == <<<<"i","n","g","r","e","d","i","e","n","t","s">>, <<"i","n","g","r","e","d","i","e","n","t",":">>, <<"i","n","g","r","e","d","i","e","n","t","s",":">>>>
stopMarkers ==
    <<<<"r","e","f","r","i","g","e","r","a","t","e">>,
      <<"s","t","o","r","a","g","e">>,
      <<"k","e","e","p"," ","r","e","f","r","i","g","e","r","a","t","e","d">>,
      <<"a","f","t","e","r"," ","o","p","e","n","i","n","g">>,
      <<"p","a","c","k","e","d"," ","f","o","r">>,
      <<"d","i","s","t","r","i","b","u","t","e","d"," ","b","y">>,
      <<"m","a","n","u","f","a","c","t","u","r","e","d">>,
      <<"n","e","t"," ","w","t">>,
      <<"b","e","s","t"," ","b","y">>,
      <<"e","x","p","i","r","y">>,
      <<"e","x","p">>,
      <<"w","a","r","n","i","n","g">>,
      <<"c","a","u","t","i","o","n">>,
      <<"d","i","r","e","c","t","i","o","n","s">>,
      <<"h","o","w"," ","t","o"," ","u","s","e">>>>
\* endIndex = startIndex + 1200
SectionWindow == 1200

\* String.prototype.indexOf(w, from), positions counted from 0; -1 when w does not occur
IndexOfFrom(s, w, from) ==
    LET at == {n \in from..(Len(s) - Len(w)) : \A i \in 1..Len(w) : s[n + i] = w[i]}
    IN  IF at = {} THEN -1 ELSE CHOOSE n \in at : \A m \in at : n <= m

\* the loop over the markers: the least index, and the first marker that has it
RECURSIVE EarliestMarker(_, _, _, _)
EarliestMarker(s, markers, from, best) ==
    IF markers = <<>> THEN best
    ELSE LET idx == IndexOfFrom(s, Head(markers), from)
         IN  EarliestMarker(s, Tail(markers), from,
                            IF idx # -1 /\ (best.index = -1 \/ idx < best.index)
                            THEN [index |-> idx, marker |-> Head(markers)]
                            ELSE best)
NoMarker == [index |-> -1, marker |-> <<>>]

\* String.prototype.slice(a, b) for 0 <= a
Slice(s, a, b) == SubSeq(s, a + 1, IF b < Len(s) THEN b ELSE Len(s))

extractIngredientsSection(v) ==
    IF IsFalsyOrNotString(v) THEN <<>>
    ELSE LET lowerText == ToLowerCase(v.s)
             start == EarliestMarker(lowerText, startMarkers, 0, NoMarker)
         IN  IF start.index = -1 THEN v.s
             ELSE LET afterStartStart == start.index + Len(start.marker)
                      stop == EarliestMarker(lowerText, stopMarkers, afterStartStart,
                                             NoMarker)
                      endIndex == IF stop.index # -1 THEN stop.index
                                  ELSE start.index + SectionWindow
                  IN  Trim(Slice(v.s, start.index, endIndex))

\* label texts: something before the marker or nothing, a marker in one of its
\* spellings or none, a list that is short, nearly as long as the window or longer,
\* a later section or none, and a rest
Pad(n) == [i \in 1..n |-> "x"]
LabelPrefixes == {<<>>, <<"N","e","t"," ","W","t"," ","5","."," ">>, <<"a","b"," ">>}
LabelStarts ==
    {<<>>, <<"I","n","g","r","e","d","i","e","n","t","s",":"," ">>,
     <<"I","N","G","R","E","D","I","E","N","T",":"," ">>, <<"i","n","g","r","e","d","i","e","n","t","s"," ">>}
LabelLists == {<<"c","d",","," ","e","f">>, Pad(SectionWindow - 20) \o <<","," ","c","d">>,
               Pad(SectionWindow + 100) \o <<","," ","c","d">>}
LabelStops == {<<>>, <<"."," ","W","a","r","n","i","n","g">>, <<" ","E","x","p"," ","2","0","2","7">>, <<"."," ","S","t","o","r","a","g","e","."," ","D","i","r","e","c","t","i","o","n","s">>}
LabelRests == {<<>>, <<" ","g","h">>}
LabelTexts ==
    {Str(a \o b \o c \o d \o e) :
        a \in LabelPrefixes, b \in LabelStarts, c \in LabelLists, d \in LabelStops,
        e \in LabelRests}
    \cup {Str(<<>>), Undefined}

InitSection ==
    /\ pc = "start"
    /\ text \in LabelTexts
    /\ tokens = <<>>
    /\ table = <<>>
    /\ refDb = <<>>
    /\ aiEnv = [url |-> FALSE]
    /\ analysis = NoAnalysis
    /\ source = "rules"
    /\ trace = NoTrace
    /\ response = NoResponse
    /\ store = EmptyStore
    /\ requests = NoRequests

ExtractSection ==
    /\ pc = "start"
    /\ analysis' = [section |-> extractIngredientsSection(text)]
    /\ pc' = "extracted"
    /\ UNCHANGED <<text, tokens, table, refDb, aiEnv, source, trace, response, store, requests>>

NextSection ==
    \/ ExtractSection

SpecSection == InitSection /\ [][NextSection]_vars

NoRepeats(q) == \A i, j \in 1..Len(q) : i # j => q[i] # q[j]
FirstIndex(q, x) == CHOOSE i \in 1..Len(q) : q[i] = x /\ \A j \in 1..(i - 1) : q[j] # x
\* out holds the elements of parts, each at the rank of its first occurrence
InFirstSeenOrder(out, parts) ==
    /\ Range(out) = Range(parts)
    /\ \A i, j \in 1..Len(out) :
           i < j => FirstIndex(parts, out[i]) < FirstIndex(parts, out[j])

\* C10: the token sequence of each tokenizer has no repeated element, and its tokens
\* appear in the order of their first occurrence in the input.
C10_TokensDistinctInOrder ==
    /\ pc = "parsed" =>
          /\ NoRepeats(tokens)
          /\ InFirstSeenOrder(tokens, IF IsFalsyOrNotString(text) THEN <<>>
                                      ELSE ParseParts(text.s))
    /\ pc = "normalized" =>
          /\ NoRepeats(tokens)
          /\ InFirstSeenOrder(tokens, IF IsFalsyOrNotString(text) THEN <<>>
                                      ELSE NormalizeParts(text.s))

\* a token occurs, then another one, then the first again
C10_Witness ==
    /\ pc \in {"parsed", "normalized"}
    /\ text.t = "string"
    /\ Len(tokens) = 2
    /\ LET parts == IF pc = "parsed" THEN ParseParts(text.s) ELSE NormalizeParts(text.s)
       IN  Len(parts) = 3 /\ parts[1] = parts[3] /\ parts[1] # parts[2]

C12_EmptyInEmptyOut ==
    /\ (pc \in {"parsed", "normalized"} /\ IsFalsyOrNotString(text)) => tokens = <<>>
    /\ (pc = "analyzed" /\ analysis.ingredients = <<>>) =>
           /\ analysis.results = <<>>
           /\ analysis.summary =
                  [total |-> 0, safe |-> 0, risky |-> 0, restricted |-> 0, unknown |-> 0]

C12_Witness ==
    /\ pc = "normalized"
    /\ text.t \in {"null", "number"}
    /\ tokens = <<>>

(***************************************************************************)
(* Claims about the dataset lookup (checked under SpecDataset)             *)
(***************************************************************************)
Matched == analysis.matched_ingredients
TableRows == Range(table)

\* the token equals the row's name, case-insensitively
NameMatch(t, r) == ToLowerCase(r.ingredient_name) = ToLowerCase(t)

\* the token equals, case-insensitively, one whole element of the row's alias list:
\* the characters between two commas (or an end of the list)
WholeAlias(t, r) ==
    /\ r.aliases.t = "string"
    /\ LET a == r.aliases.s
       IN  \E i \in 1..Len(a) : \E j \in i..Len(a) :
               /\ i = 1 \/ a[i - 1] = ","
               /\ j = Len(a) \/ a[j + 1] = ","
               /\ \A k \in i..j : a[k] # ","
               /\ ToLowerCase(SubSeq(a, i, j)) = ToLowerCase(t)

HasExact(t) == \E r \in TableRows : NameMatch(t, r)
HasAlias(t) == \E r \in TableRows : WholeAlias(t, r)
EntryOf(m, r) == m.name = r.ingredient_name /\ m.risk_level = r.risk_level
EntriesAt(level) == Cardinality({i \in 1..Len(Matched) : Matched[i].risk_level = level})
BucketsCountEntries ==
    /\ analysis.summary.safeCount = EntriesAt("LOW")
    /\ analysis.summary.riskyCount = EntriesAt("MEDIUM")
    /\ analysis.summary.restrictedCount = EntriesAt("HIGH")
EarlierInput(m, k) == \E j \in 1..(k - 1) : tokens[j] = m.input

\* a token without an exact name match yields an entry only through a whole alias
AliasOnlyWhole ==
    \A k \in 1..Len(tokens) : ~HasExact(tokens[k]) =>
        \A i \in 1..Len(Matched) : Matched[i].input = tokens[k] =>
            \E r \in TableRows : WholeAlias(tokens[k], r) /\ EntryOf(Matched[i], r)

\* C7 as claimed: a token without an exact name match matches a row by alias iff it
\* equals one whole element of the row's alias list; a token matched by alias is
\* reported with the row's canonical name and risk level and counted in the bucket of
\* that level.
C7_AliasAsClaimed ==
    pc = "looked" =>
        /\ AliasOnlyWhole
        /\ \A k \in 1..Len(tokens) : (~HasExact(tokens[k]) /\ HasAlias(tokens[k])) =>
               \E i \in 1..Len(Matched) : \E r \in TableRows :
                   WholeAlias(tokens[k], r) /\ EntryOf(Matched[i], r)
        /\ BucketsCountEntries

\* C7 as amended: ... a token matched by alias is reported with the row's canonical
\* name and risk level and counted in the bucket of that level, unless an earlier token
\* of the call already produced an entry whose name equals that row's name ignoring
\* case: then the token adds no entry.
C7_AliasWholeElement ==
    pc = "looked" =>
        /\ AliasOnlyWhole
        /\ \A k \in 1..Len(tokens) : (~HasExact(tokens[k]) /\ HasAlias(tokens[k])) =>
               \E r \in TableRows :
                   /\ WholeAlias(tokens[k], r)
                   /\ \/ \E i \in 1..Len(Matched) :
                             Matched[i].input = tokens[k] /\ EntryOf(Matched[i], r)
                      \/ /\ \E i \in 1..Len(Matched) :
                                /\ EarlierInput(Matched[i], k)
                                /\ ToLowerCase(Matched[i].name)
                                       = ToLowerCase(r.ingredient_name)
                         /\ \A i \in 1..Len(Matched) : Matched[i].input # tokens[k]
        /\ BucketsCountEntries

\* "ef" matches the HIGH row "Ab" through its alias "EF"; "ij" lies inside the alias
\* "ijx" of the row "q" and yields nothing
C7_Witness ==
    /\ pc = "looked"
    /\ \E i \in 1..Len(Matched) :
           /\ Matched[i].input = <<"e","f">>
           /\ Matched[i].name = <<"A","b">>
           /\ Matched[i].risk_level = "HIGH"
    /\ analysis.summary.restrictedCount = 1
    /\ <<"i","j">> \in Range(tokens) /\ Rowq \in TableRows
    /\ \A i \in 1..Len(Matched) : Matched[i].input # <<"i","j">>

\* C8: the result holds an entry only for tokens that matched a row by exact name or
\* alias; an unmatched token appears nowhere and increments no bucket; the three
\* counts add up to the number of entries, which is at most the number of tokens.
C8_OnlyMatchedTokens ==
    pc = "looked" =>
        /\ \A i \in 1..Len(Matched) :
               /\ Matched[i].input \in Range(tokens)
               /\ \E r \in TableRows :
                      /\ EntryOf(Matched[i], r)
                      /\ NameMatch(Matched[i].input, r) \/ WholeAlias(Matched[i].input, r)
        /\ \A k \in 1..Len(tokens) : (~HasExact(tokens[k]) /\ ~HasAlias(tokens[k])) =>
               \A i \in 1..Len(Matched) :
                   Matched[i].input # tokens[k] /\ Matched[i].name # tokens[k]
        /\ analysis.summary.safeCount + analysis.summary.riskyCount
               + analysis.summary.restrictedCount = Len(Matched)
        /\ Len(Matched) <= Len(tokens)

C8_Witness ==
    /\ pc = "looked"
    /\ Matched # <<>>
    /\ \E k \in 1..Len(tokens) : ~HasExact(tokens[k]) /\ ~HasAlias(tokens[k])

\* the canonical name a token resolves to: that of the first row of its query
ResolvesTo(k, name) ==
    QueryRows(table, tokens[k]) # <<>>
        /\ QueryRows(table, tokens[k])[1].ingredient_name = name
ResolvesToIgnoringCase(k, name) ==
    QueryRows(table, tokens[k]) # <<>>
        /\ ToLowerCase(QueryRows(table, tokens[k])[1].ingredient_name) = ToLowerCase(name)
First(S) == CHOOSE k \in S : \A j \in S : k <= j

\* C9 as claimed: when several tokens resolve to the same canonical name, the output
\* contains that name exactly once, with the input of the first such token; no
\* canonical name appears twice.
C9_DedupAsClaimed ==
    pc = "looked" =>
        /\ \A r \in TableRows :
               LET S == {k \in 1..Len(tokens) : ResolvesTo(k, r.ingredient_name)}
               IN  Cardinality(S) >= 2 =>
                       /\ Cardinality({i \in 1..Len(Matched) :
                                          Matched[i].name = r.ingredient_name}) = 1
                       /\ \E i \in 1..Len(Matched) :
                              /\ Matched[i].name = r.ingredient_name
                              /\ Matched[i].input = tokens[First(S)]
        /\ \A i, j \in 1..Len(Matched) : i # j => Matched[i].name # Matched[j].name

\* C9 as amended: when several tokens resolve to canonical names that are equal
\* ignoring case, the output contains exactly one entry whose name equals them ignoring
\* case: the name the first such token resolved to, with that token as input; no two
\* entries have names that are equal ignoring case.
C9_DedupFirstWins ==
    pc = "looked" =>
        /\ \A r \in TableRows :
               LET S == {k \in 1..Len(tokens) : ResolvesToIgnoringCase(k, r.ingredient_name)}
               IN  Cardinality(S) >= 2 =>
                       /\ Cardinality({i \in 1..Len(Matched) :
                              ToLowerCase(Matched[i].name)
                                  = ToLowerCase(r.ingredient_name)}) = 1
                       /\ \E i \in 1..Len(Matched) :
                              /\ ResolvesTo(First(S), Matched[i].name)
                              /\ Matched[i].input = tokens[First(S)]
        /\ \A i, j \in 1..Len(Matched) :
               i # j => ToLowerCase(Matched[i].name) # ToLowerCase(Matched[j].name)

\* two tokens resolve to one row, a third one to a row whose name differs in case only
C9_Witness ==
    /\ pc = "looked"
    /\ Len(Matched) = 1
    /\ \E j, k, l \in 1..Len(tokens) :
           /\ j < k /\ j < l /\ k # l
           /\ ResolvesTo(j, Matched[1].name)
           /\ ResolvesTo(k, Matched[1].name)
           /\ ResolvesToIgnoringCase(l, Matched[1].name)
           /\ ~ResolvesTo(l, Matched[1].name)

(***************************************************************************)
(* Claims about the risk vocabularies (checked under SpecVocab)            *)
(***************************************************************************)
\* the word as the adapters compare it
Word == Trim(ToLowerCase(StringOf(text)))
Missing == ~Truthy(text)
\* the words the free-text adapter's file lists for some level
FreeTextWords == LowWords \cup HighWords \cup OverallMediumWords

\* the ingredient-list flow: a status of the closed vocabulary, each listed synonym
\* mapped to its status, everything else and a missing value to Safe
StatusAsListed ==
    pc = "status" =>
        /\ analysis.out \in {"Safe", "Risky", "Restricted"}
        /\ (~Missing /\ Word \in RestrictedWords) => analysis.out = "Restricted"
        /\ (~Missing /\ Word \in RiskyWords) => analysis.out = "Risky"
        /\ (Missing \/ Word \notin RestrictedWords \cup RiskyWords) => analysis.out = "Safe"

\* C14 as stated: each adapter answers with one value of its closed vocabulary, and
\* an unrecognized or missing value goes to the safest bucket: Safe in the
\* ingredient-list flow, LOW in the free-text flow.
C14_SafestDefaultAsClaimed ==
    /\ StatusAsListed
    /\ pc = "level" =>
          /\ analysis.out \in {"LOW", "MEDIUM", "HIGH"}
          /\ (Missing \/ Word \notin FreeTextWords) => analysis.out = "LOW"

\* C14, amended: as above for the ingredient-list flow; in the free-text flow the
\* listed low words go to LOW, the listed high words to HIGH, and every other word
\* and a missing value go to MEDIUM.
C14_DefaultPerFlow ==
    /\ StatusAsListed
    /\ pc = "level" =>
          /\ analysis.out \in {"LOW", "MEDIUM", "HIGH"}
          /\ (~Missing /\ Word \in LowWords) => analysis.out = "LOW"
          /\ (~Missing /\ Word \in HighWords) => analysis.out = "HIGH"
          /\ (Missing \/ Word \notin LowWords \cup HighWords) => analysis.out = "MEDIUM"

\* an unlisted word has been mapped by the free-text adapter
C14_Witness ==
    /\ pc = "level"
    /\ ~Missing /\ Word = W_toxic
    /\ analysis.out = "MEDIUM"

\* the one table of the vocabularies
RulesStatusOf(level) ==
    IF level = "LOW" THEN "Safe" ELSE IF level = "MEDIUM" THEN "Risky" ELSE "Restricted"
ScanRiskOf(level) ==
    IF level = "LOW" THEN "safe" ELSE IF level = "MEDIUM" THEN "risky" ELSE "restricted"

\* C16: for every level x of {LOW, MEDIUM, HIGH}, converting x to the rules-tier
\* status and back to the dataset vocabulary yields x, the status is the one of x's
\* row of the table, and mapRiskLevelToScanRisk sends x to the scan value of that row.
C16_VocabularyRoundTrip ==
    pc = "converted" =>
        /\ analysis.status = RulesStatusOf(analysis.level)
        /\ analysis.back = analysis.level
        /\ analysis.scan = ScanRiskOf(analysis.level)

(***************************************************************************)
(* Claims about the ingredient-list flow (checked under SpecExplain)       *)
(***************************************************************************)
FirstReply == aiEnv.replies[1]
\* the first call returned a text that JSON.parse rejects
FirstFailedToParse ==
    FirstReply.kind = "content" /\ ~JsonParses(JsonText(FirstReply.content))
Finished == pc \in {"respond", "caught", "done"}

\* C13: one explainIngredients invocation calls the provider at most twice; a second
\* call is made exactly when the first response failed to parse as valid JSON, and it
\* sends the first prompt plus the 'return only JSON' instruction; after a network
\* error or a timeout of the first call there is no second call and that error is the
\* one propagated.
C13_OneRetryOnParseFailure ==
    /\ Len(trace.calls) <= 2
    /\ Len(trace.calls) >= 1 => trace.calls[1] = buildPrompt(tokens)
    /\ Len(trace.calls) = 2 =>
          /\ FirstFailedToParse
          /\ trace.calls[2] = CorrectedPrompt(trace.calls[1])
          /\ trace.calls[2] # trace.calls[1]
    /\ (Finished /\ aiEnv.key) =>
          /\ Len(trace.calls) = IF FirstFailedToParse THEN 2 ELSE 1
          /\ FirstReply.kind = "error" =>
                 /\ ~analysis.ok
                 /\ analysis.message = FirstReply.message
                 /\ analysis.code = FirstReply.code

\* a first answer that does not parse, a second call, and results
C13_Witness ==
    /\ pc = "done"
    /\ Len(trace.calls) = 2
    /\ response.status = 200
    /\ response.body # <<>>

\* the errors of a provider that does not answer: a timeout or a network failure
UnavailableErrors == {Err(M_timeout, "ECONNABORTED"), Err(M_network, "ERR_NETWORK")}

\* C15: a missing credential and a timeout or network failure are two conditions the
\* caller can tell apart: the error the adapter throws for a missing credential, and
\* the outcome the controller returns for it, differ from those of an unavailable
\* provider.
C15_ConfigurationToldApart ==
    (pc = "done" /\ ~aiEnv.key) =>
        /\ analysis \notin UnavailableErrors
        /\ \A e \in UnavailableErrors : response # ExplainErrorResponse(e)

(***************************************************************************)
(* Claims about the analyze response (checked under Spec)                  *)
(***************************************************************************)
\* the level of each per-ingredient result of a response, in the dataset vocabulary
ResultLevels(r) ==
    IF r.source = "dataset"
    THEN [i \in 1..Len(r.matched_ingredients) |-> r.matched_ingredients[i].risk_level]
    ELSE IF r.source = "ai"
    THEN [i \in 1..Len(r.matched_ingredients) |-> r.matched_ingredients[i].risk]
    ELSE [i \in 1..Len(r.results) |->
             IF r.results[i].status = "Safe" THEN "LOW"
             ELSE IF r.results[i].status = "Risky" THEN "MEDIUM"
             ELSE IF r.results[i].status = "Restricted" THEN "HIGH"
             ELSE "NONE"]
CountOf(levels, l) == Cardinality({i \in 1..Len(levels) : levels[i] = l})

\* C17: every successful analyzeText response, whatever its source, carries a summary
\* of the shape {safeCount, riskyCount, restrictedCount} whose counts are the numbers
\* of its per-ingredient results of level LOW/Safe, MEDIUM/Risky and HIGH/Restricted.
C17_UniformSummary ==
    Answered =>
        /\ "summary" \in DOMAIN response
        /\ DOMAIN response.summary = {"safeCount", "riskyCount", "restrictedCount"}
        /\ response.summary.safeCount = CountOf(ResultLevels(response), "LOW")
        /\ response.summary.riskyCount = CountOf(ResultLevels(response), "MEDIUM")
        /\ response.summary.restrictedCount = CountOf(ResultLevels(response), "HIGH")

(***************************************************************************)
(* Claims about saving a scan (checked under SpecPersist)                  *)
(***************************************************************************)
\* the analysis content of a response: everything but the id of the saved scan
ContentOf(resp) == [f \in DOMAIN resp \ {"scanId"} |-> resp[f]]

SavingTextRequest(r) ==
    /\ requests[r].handler = "analyzeText"
    /\ requests[r].user
    /\ requests[r].pc = "done"

\* C18: an authenticated analyzeText request whose persistence failed, at whatever
\* statement, answers with the success status and with the analysis content (source,
\* per-ingredient results, risk level) that a request with the same verdict answers
\* when its persistence commits.
C18_PersistenceFailureSwallowed ==
    \A a, b \in Callers :
        (/\ SavingTextRequest(a) /\ SavingTextRequest(b)
         /\ requests[a].verdict = requests[b].verdict
         /\ requests[a].outcome = "failed"
         /\ requests[b].outcome = "committed")
        => /\ requests[a].response.status = 200
           /\ requests[b].response.status = 200
           /\ ContentOf(requests[a].response) = ContentOf(requests[b].response)
           /\ requests[a].response.source = requests[a].source

\* a request failed after its ingredient rows were written, another with the same
\* verdict committed, and both have answered
C18_Witness ==
    \E a, b \in Callers :
        /\ SavingTextRequest(a) /\ SavingTextRequest(b)
        /\ requests[a].verdict = requests[b].verdict
        /\ requests[a].verdict = "rules"
        /\ requests[a].outcome = "failed"
        /\ requests[a].scanId # 0
        /\ requests[b].outcome = "committed"

\* the per-ingredient results of a verdict: results of the rule tier,
\* matched_ingredients of the dataset and AI tiers
PerIngredientResults(q) ==
    IF q.source = "rules" THEN q.analysis.results ELSE q.analysis.matched_ingredients

ScansOf(r) == {s \in store.scans : s.by = r}
LinksOf(id) == {l \in store.links : l.scan = id}

\* C19: an authenticated analyzeText request whose persistence commits has written
\* exactly one scans row and one scan_ingredients row for each per-ingredient result
\* of its verdict, whatever the source; an unauthenticated one has written no row.
C19_RowsPerResult ==
    \A r \in Callers :
        (requests[r].handler = "analyzeText" /\ requests[r].pc = "done")
        => /\ (requests[r].user /\ requests[r].outcome = "committed")
              => /\ Cardinality(ScansOf(r)) = 1
                 /\ Cardinality(LinksOf(requests[r].scanId))
                        = Len(PerIngredientResults(requests[r]))
           /\ ~requests[r].user
              => /\ ScansOf(r) = {}
                 /\ requests[r].scanId = 0

\* the transaction alone: relative to the rows the loop of the handler writes
\* (analysis.results), a committed scan has all of them, a link refers to a committed
\* scan and ingredient, and a failed request has left nothing
WrittenRowsAtomic ==
    /\ \A s \in store.scans :
           Cardinality(LinksOf(s.id)) = Len(ResultsToSave(requests[s.by].analysis))
    /\ \A l \in store.links :
           l.ingredient \in store.ingredients /\ \E s \in store.scans : s.id = l.scan
    /\ \A r \in Callers :
           requests[r].outcome = "failed"
           => /\ ScansOf(r) = {}
              /\ requests[r].scanId # 0 => LinksOf(requests[r].scanId) = {}

\* C20: in every committed state of the store a scan has the scan_ingredients rows of
\* all the per-ingredient results of its analysis, and a request whose persistence
\* failed has left no row, under every failure point and interleaving.
C20_AtomicScan ==
    /\ \A s \in store.scans :
           Cardinality(LinksOf(s.id)) = Len(PerIngredientResults(requests[s.by]))
    /\ \A r \in Callers :
           requests[r].outcome = "failed"
           => /\ ScansOf(r) = {}
              /\ requests[r].scanId # 0 => LinksOf(requests[r].scanId) = {}

\* C27: the scanId of an analyzeText response is non-null only if a scans row with
\* that id was committed; after a rollback that follows the scan insert it is null.
C27_ScanIdOnlyIfCommitted ==
    \A r \in Callers :
        (requests[r].handler = "analyzeText" /\ requests[r].pc = "done")
        => \/ requests[r].response.scanId = 0
           \/ \E s \in store.scans : s.id = requests[r].response.scanId

\* a request that runs the transaction: analyzeText of a signed-in caller, or scanImage
Persists(r) == requests[r].handler = "scanImage" \/ requests[r].user

\* C28: two requests that persist the same ingredient name, not stored before (the
\* rule verdict's "xparaben"), and that no outside failure hits, both commit under
\* every interleaving, and one ingredients row exists for the name afterwards.
C28_FindOrCreateSafe ==
    \A a, b \in Callers :
        (/\ a # b
         /\ Persists(a) /\ Persists(b)
         /\ requests[a].verdict = "rules" /\ requests[b].verdict = "rules"
         /\ requests[a].pc = "done" /\ requests[b].pc = "done"
         /\ requests[a].cause # "statement" /\ requests[b].cause # "statement")
        => /\ requests[a].outcome = "committed"
           /\ requests[b].outcome = "committed"
           /\ Cardinality({n \in store.ingredients :
                              ToLowerCase(n) = ToLowerCase(<<"x">> \o W_paraben)}) = 1

(***************************************************************************)
(* Claims about the parsing of a model answer (checked under SpecExplain)  *)
(***************************************************************************)
\* the well-formed JSON arrays of an answer text, as pairs of positions
WellFormedArrays(segs) ==
    {p \in (1..Len(segs)) \X (1..Len(segs)) :
        /\ p[1] < p[2]
        /\ segs[p[1]].k = "open" /\ segs[p[2]].k = "close"
        /\ IsJsonArray(SubSeq(segs, p[1], p[2]))}
FirstWellFormedArray(segs) ==
    LET p == CHOOSE q \in WellFormedArrays(segs) :
                 \A q2 \in WellFormedArrays(segs) : q[1] <= q2[1]
    IN  SubSeq(segs, p[1], p[2])
\* what parsing that array gives: its items, or the TypeError of a null item
ResultOfArray(arr) ==
    IF \E i \in 1..Len(ArrayElements(arr)) : ArrayElements(arr)[i].k = "null"
    THEN Err(M_nullItem, "")
    ELSE Ok(MapItems(ArrayElements(arr)))

\* C25: when the answer of the first call contains a well-formed top-level JSON array,
\* the array that is parsed is the first such array, whatever brackets, fences or
\* prose stand before or after it: the attempt gives the items of that array and no
\* second call is made.
C25_FirstArrayParsed ==
    (/\ Len(trace.calls) >= 1
     /\ FirstReply.kind = "content"
     /\ WellFormedArrays(FirstReply.content) # {})
    => /\ JsonText(FirstReply.content) = FirstWellFormedArray(FirstReply.content)
       /\ Attempt(FirstReply) = ResultOfArray(FirstWellFormedArray(FirstReply.content))
       /\ Len(trace.calls) = 1

(***************************************************************************)
(* Claims about the classification of one ingredient (checked under        *)
(* SpecClassify)                                                           *)
(***************************************************************************)
Classified == pc \in {"classified", "answered"}
ClassifiedRaw == IF Truthy(text) THEN text.s ELSE <<>>
\* the token after normalisation and synonym substitution
ClassifiedKey ==
    LET i == normalizeForMatch(ClassifiedRaw)
    IN  IF ApplySynonym(i) # i THEN normalizeForMatch(ApplySynonym(i)) ELSE i
KeyIndexes(k) == {i \in 1..Len(refDb) : refDb[i].key = k}
\* the reference keys of four characters at least that lie in the token
ContainedIndexes ==
    {i \in 1..Len(refDb) : Len(refDb[i].key) >= 4 /\ Includes(ClassifiedKey, refDb[i].key)}
Least(S) == CHOOSE i \in S : \A j \in S : i <= j
EntryResult(i) == [status |-> refDb[i].status, explanation |-> refDb[i].explanation,
                   matchedKey |-> Str(refDb[i].key)]
HasParaben == Includes(ToLowerCase(ClassifiedRaw), W_paraben)
HasFragrance ==
    \/ Includes(ToLowerCase(ClassifiedRaw), W_fragrance)
    \/ Includes(ToLowerCase(ClassifiedRaw), W_parfum)

\* the strategies in their order: exact key, first contained key, family, Unknown
FirstHitWins ==
    /\ IF KeyIndexes(ClassifiedKey) # {}
       THEN analysis = EntryResult(Least(KeyIndexes(ClassifiedKey)))
       ELSE IF ContainedIndexes # {}
       THEN analysis = EntryResult(Least(ContainedIndexes))
       ELSE IF Includes(ClassifiedKey, W_paraben)
       THEN analysis.matchedKey = Str(W_paraben)
       ELSE IF Includes(ClassifiedKey, W_fragrance) \/ Includes(ClassifiedKey, W_parfum)
       THEN analysis.matchedKey = Str(W_fragrance)
       ELSE analysis.status = "Unknown" /\ analysis.matchedKey = SqlNull
    /\ (/\ analysis.matchedKey # SqlNull
        /\ analysis.matchedKey # Str(ClassifiedKey)
        /\ analysis.matchedKey \notin {Str(W_paraben), Str(W_fragrance)})
       => Len(analysis.matchedKey.s) >= 4

FirstHitWinsForOwnKeys ==
    (Classified /\ ClassifiedKey # <<>> /\ ClassifiedKey \notin InheritedKeys)
    => FirstHitWins

\* the result of a family: the entry of its key, or Risky when the table has none
FamilyResultIs(k) ==
    /\ analysis.matchedKey = Str(k)
    /\ IF KeyIndexes(k) # {}
       THEN analysis = EntryResult(Least(KeyIndexes(k)))
       ELSE analysis.status = "Risky"
\* no exact key and no contained key other than k takes the token first
NothingBefore(k) ==
    /\ KeyIndexes(ClassifiedKey) = {} \/ ClassifiedKey = k
    /\ ContainedIndexes = {} \/ refDb[Least(ContainedIndexes)].key = k

\* C23 as stated: for every reference table, any token that contains "paraben" gets
\* the status and explanation of the "paraben" entry (Risky when absent) and
\* matchedKey "paraben"; any token that contains "fragrance" or "parfum" gets those of
\* the "fragrance" entry (Risky when absent) and matchedKey "fragrance".
C23_FamilyAsClaimed ==
    Classified =>
        /\ HasParaben => FamilyResultIs(W_paraben)
        /\ HasFragrance => FamilyResultIs(W_fragrance)

\* C23: a token that contains "paraben", and that no exact key and no earlier contained
\* key other than "paraben" takes first, gets the "paraben" entry (Risky when absent)
\* and matchedKey "paraben"; a token that contains "fragrance" or "parfum" but not
\* "paraben", and that no exact or earlier contained key other than "fragrance" takes
\* first, gets the "fragrance" entry (Risky when absent) and matchedKey "fragrance".
C23_FamilyAfterKeys ==
    Classified =>
        /\ (HasParaben /\ NothingBefore(W_paraben)) => FamilyResultIs(W_paraben)
        /\ (HasFragrance /\ ~HasParaben /\ NothingBefore(W_fragrance))
           => FamilyResultIs(W_fragrance)

\* a paraben classified Risky by a table that has no paraben entry
C23_Witness ==
    /\ Classified
    /\ HasParaben
    /\ KeyIndexes(W_paraben) = {}
    /\ refDb # <<>>
    /\ analysis.status = "Risky"
    /\ analysis.matchedKey = Str(W_paraben)

\* C29: for every non-empty ingredient string and every reference table the lookup
\* endpoint answers with success and with the matchedKey, the explanation and the
\* lower-cased status that classifyIngredient returns for that string.
C29_LookupEquivalent ==
    (pc = "answered" /\ Truthy(text))
    => /\ response.status = 200
       /\ response.matchedKey = analysis.matchedKey
       /\ response.explanation = analysis.explanation
       /\ response.risk = LowerStatus(analysis.status)

(***************************************************************************)
(* Claims about the OCR worker (checked under SpecOcr)                     *)
(***************************************************************************)
\* the sharing alone: a call that finds a pending or settled initialization or a
\* worker starts none, and createWorker is invoked once at most
InitializationShared ==
    /\ \A c \in OcrCalls :
           requests[c].arrival \in {"pending", "ready", "resolved"} => ~requests[c].started
    /\ store.created <= 1

\* C30: calls that arrive while the initialization is pending share it, and
\* createWorker is not invoked again once a worker exists; a call that arrives after
\* an initialization failed starts a new initialization instead of receiving the
\* cached failure.
C30_WorkerSingleton ==
    /\ \A c \in OcrCalls :
           requests[c].arrival \in {"pending", "ready", "resolved"} => ~requests[c].started
    /\ store.worker => store.created = 1
    /\ \A c \in OcrCalls :
           requests[c].arrival = "rejected"
           => /\ requests[c].started
              /\ requests[c].result # "init failed"

(***************************************************************************)
(* Claims about the connection pool (checked under SpecPool)               *)
(***************************************************************************)
\* a request that asks the pool for a connection while none is free
WaitsForConnection(r) == requests[r].pc \in PoolWaitPcs /\ store.free = 0

\* C21: concurrent analyzeText requests do not block each other: with a pool of any
\* finite size, each request holding the client of its handler while the availability
\* check and the dataset lookup take further connections, no state is reachable in
\* which all unfinished requests wait forever for a pooled connection.
C21_NoRequestWaitsForever ==
    ~ /\ \E r \in PoolCallers : WaitsForConnection(r)
      /\ \A r \in PoolCallers : requests[r].pc = "done" \/ WaitsForConnection(r)

\* C26: every client taken from the pool by scanImage, analyzeText and
\* analyzeWithDataset is released exactly once on every path: when the requests have
\* completed no client is checked out, and no client was released twice.
C26_ClientsReleasedOnce ==
    /\ \A r \in PoolCallers :
           /\ requests[r].client # "released twice"
           /\ requests[r].lookupClient # "released twice"
           /\ requests[r].pc = "done" =>
                  /\ requests[r].client \in {"none", "released"}
                  /\ requests[r].lookupClient \in {"none", "released"}
    /\ (\A r \in PoolCallers : requests[r].pc = "done") => store.free = PoolSize

\* all requests completed: early returns of both handlers, a dataset lookup, an
\* exception, a success
C26_Witness ==
    /\ \A r \in PoolCallers : requests[r].pc = "done"
    /\ \E r \in PoolCallers : requests[r].exit = "invalid"
    /\ \E r \in PoolCallers : requests[r].lookupClient = "released"
    /\ \E r \in PoolCallers : requests[r].handler = "scanImage" /\ requests[r].exit = "error"

(***************************************************************************)
(* Claims about the ingredients section (checked under SpecSection)        *)
(***************************************************************************)
\* the positions (from 0) at which one of the markers stands in s, from position a on
MarkerPositions(s, markers, a) ==
    {n \in a..(Len(s) - 1) :
        \E k \in 1..Len(markers) :
            /\ n + Len(markers[k]) <= Len(s)
            /\ \A i \in 1..Len(markers[k]) : s[n + i] = markers[k][i]}
LeastOf(S) == CHOOSE n \in S : \A m \in S : n <= m
SectionStarts == MarkerPositions(ToLowerCase(text.s), startMarkers, 0)

\* C24: for a text that contains a start marker the section begins at the earliest
\* start marker and ends at the earliest stop marker found after it; when no stop
\* marker lies within the window after the start marker the section is cut at the
\* window, so that it is never longer than the window of 1200 characters.
C24_SectionWithinWindow ==
    (pc # "start" /\ Truthy(text) /\ SectionStarts # {})
    => LET first == LeastOf(SectionStarts)
           stops == {n \in MarkerPositions(ToLowerCase(text.s), stopMarkers, first + 1) :
                        n <= first + SectionWindow}
       IN  /\ analysis.section =
                  Trim(Slice(text.s, first,
                             IF stops # {} THEN LeastOf(stops) ELSE first + SectionWindow))
           /\ Len(analysis.section) <= SectionWindow

\* what does hold: the section is as C24 says whenever no stop marker stands
\* beyond the window after the start marker
SectionWithinWindowUnlessLateStop ==
    (pc # "start" /\ Truthy(text) /\ SectionStarts # {})
    => LET first == LeastOf(SectionStarts)
           late == {n \in MarkerPositions(ToLowerCase(text.s), stopMarkers, first + 1) :
                       n > first + SectionWindow}
           stops == {n \in MarkerPositions(ToLowerCase(text.s), stopMarkers, first + 1) :
                        n <= first + SectionWindow}
       IN  (late = {} \/ stops # {})
           => /\ analysis.section =
                     Trim(Slice(text.s, first,
                                IF stops # {} THEN LeastOf(stops)
                                ELSE first + SectionWindow))
              /\ Len(analysis.section) <= SectionWindow

====
